------------------------------ MODULE Autowrap ------------------------------
(***************************************************************************)
(* The rewriting of forward functions before they are traced: AutoWrapper, *)
(* NameAnalyzer and ControlFlowAnalyzer (pipelines/sequential/ast_utils).  *)
(*                                                                         *)
(* What tracing cannot follow is moved into a function of its own: an if   *)
(* whose test depends on data, a conditional expression, a call that is on *)
(* the ignore list or unpacks its arguments.  The analyzers decide which   *)
(* names the function is given and which it returns.                       *)
(*                                                                         *)
(* The statements of forward are visited one after the other; then the     *)
(* function and what has become of it run side by side.  A value is the    *)
(* operation that has computed it with the values it has read.  A loop     *)
(* runs once or not at all.  Functions and comprehensions inside of        *)
(* forward, and targets and assignments inside of expressions, are left    *)
(* out.                                                                    *)
(***************************************************************************)
EXTENDS Naturals, Sequences, SequencesExt

CONSTANTS
  Identifiers,        \* names in forward functions
  Parameters,   \* those that are arguments of forward
  Globals,      \* those of the namespace, which forward does not assign
  Tests,        \* what depends on data
  Forwards      \* forward functions: sequences of statements

ASSUME AutowrapAssumption ==
  /\ Parameters \subseteq Identifiers /\ Globals \subseteq Identifiers \ Parameters
  /\ Tests \cap {"true", "false"} = {}

VARIABLES
  forward,      \* the original statements
  wrapAt,       \* the statement that is visited or run next
  wrapStage,    \* "visit", "run", "failed"
  localNames,   \* _local_names
  wrapped,      \* what forward has become
  outcome,      \* what the data decides
  original,     \* the run of the original
  rewritten     \* the run of what it has become

wrapVars ==
  <<forward, wrapAt, wrapStage, localNames, wrapped, outcome, original, rewritten>>

-----------------------------------------------------------------------------
(* Statements.  Reads are sets of names; a test is "true" or "false" if it can be
   evaluated, and otherwise in Tests. *)

Assign(op, to, reads) == [kind |-> "assign", op |-> op, to |-> to, reads |-> reads]
Call(op, to, reads) == [kind |-> "call", op |-> op, to |-> to, reads |-> reads]
Choose(op, to, test, reads, body, orelse) ==
  [kind |-> "choose", op |-> op, to |-> to, test |-> test, reads |-> reads,
   body |-> body, orelse |-> orelse]
Augment(op, to) == [kind |-> "augment", op |-> op, to |-> to]
Delete(name) == [kind |-> "delete", to |-> name]
ReturnOf(reads) == [kind |-> "return", reads |-> reads]
Break == [kind |-> "break"]
If(test, reads, body, orelse) ==
  [kind |-> "if", test |-> test, reads |-> reads, body |-> body, orelse |-> orelse]
For(test, to, reads, body) ==
  [kind |-> "for", test |-> test, to |-> to, reads |-> reads, body |-> body]

-----------------------------------------------------------------------------
(* The analyzers *)

(* ControlFlowAnalyzer: no return, and no break without its loop. *)
RECURSIVE IsValid(_, _)
IsValid(s, inLoop) ==
  CASE s.kind = "return" -> FALSE
    [] s.kind = "break" -> inLoop
    [] s.kind = "for" -> \A i \in DOMAIN s.body : IsValid(s.body[i], TRUE)
    [] s.kind = "if" -> /\ \A i \in DOMAIN s.body : IsValid(s.body[i], inLoop)
                        /\ \A i \in DOMAIN s.orelse : IsValid(s.orelse[i], inLoop)
    [] OTHER -> TRUE

NoNames == [unbound |-> {}, assigned |-> {}, conditional |-> {}]
Load(n, reads) == [n EXCEPT !.unbound = @ \cup (reads \ (n.assigned \cup Globals))]
Store(n, name) == [n EXCEPT !.assigned = @ \cup {name}]

(* After an if: what one branch assigns is conditional, what both assign is assigned. *)
Merge(n, yes, no) ==
  LET both == yes.assigned \cap no.assigned IN
  [no EXCEPT !.conditional = @ \cup ((yes.assigned \cup no.assigned) \ both),
             !.assigned = n.assigned \cup both]

(* NameAnalyzer: the target of an augmented assignment and a deleted name are stored
   and not loaded, and a loop is taken to run. *)
RECURSIVE Analyze(_, _)
AnalyzeAll(n, stmts) == FoldLeft(Analyze, n, stmts)
Analyze(n, s) ==
  CASE s.kind \in {"assign", "call"} -> Store(Load(n, s.reads), s.to)
    [] s.kind = "choose" -> Store(Load(n, s.reads \cup s.body \cup s.orelse), s.to)
    [] s.kind \in {"augment", "delete"} -> Store(n, s.to)
    [] s.kind = "return" -> Load(n, s.reads)
    [] s.kind = "break" -> n
    [] s.kind = "for" -> AnalyzeAll(Load(Store(n, s.to), s.reads), s.body)
    [] s.kind = "if" ->
         LET read == Load(n, s.reads)
             yes == AnalyzeAll([read EXCEPT !.assigned = {}], s.body)
             no == AnalyzeAll([yes EXCEPT !.assigned = {}], s.orelse)
         IN Merge(read, yes, no)

-----------------------------------------------------------------------------
(* AutoWrapper *)

Visited(code, local) == [code |-> code, local |-> local, raised |-> FALSE]

(* _wrap_stmt: names that may be assigned are arguments, so that they can be returned
   unchanged; those that do not exist yet are None. *)
WrapStatement(s, local) ==
  LET n == Analyze(NoNames, s) IN
  Visited([kind |-> "wrapped",
           args |-> (n.unbound \cup n.conditional) \cap local,
           defaults |-> n.conditional \ local,
           returns |-> n.assigned \cup n.conditional,
           code |-> s],
          local \cup n.assigned \cup n.conditional)

(* _wrap_expr of the value of an assignment, whose target has been visited before. *)
WrapValue(s, local) ==
  LET reads == IF s.kind = "call" THEN s.reads ELSE s.reads \cup s.body \cup s.orelse IN
  Visited([kind |-> "wrappedValue", to |-> s.to, code |-> s,
           args |-> Load(NoNames, reads).unbound \cap (local \cup {s.to})],
          local \cup {s.to})

IsStatic(s) == s.test \in {"true", "false"}

RECURSIVE Visit(_, _)
VisitAll(stmts, local) ==
  FoldLeft(LAMBDA done, s :
             LET v == Visit(s, done.local) IN
             IF done.raised THEN done
             ELSE [code |-> Append(done.code, v.code), local |-> v.local, raised |-> v.raised],
           Visited(<<>>, local), stmts)

(* Mutant: the names of the branch that is not taken are local, too. *)
VisitBoth(s, local) ==
  LET yes == VisitAll(s.body, local)
      no == VisitAll(s.orelse, yes.local)
  IN [Visited([s EXCEPT !.body = yes.code, !.orelse = no.code], no.local) EXCEPT
        !.raised = yes.raised \/ no.raised]

(* Only the branch of a static if that is taken is visited. *)
VisitLive(s, local) ==
  LET live == VisitAll(IF s.test = "true" THEN s.body ELSE s.orelse, local) IN
  [live EXCEPT !.code = IF s.test = "true" THEN [s EXCEPT !.body = live.code]
                        ELSE [s EXCEPT !.orelse = live.code]]

(* What cannot be wrapped stays as it is, and nothing in it is visited. *)
Visit(s, local) ==
  CASE s.kind \in {"assign", "augment"} -> Visited(s, local \cup {s.to})
    [] s.kind \in {"return", "break"} -> Visited(s, local)
    [] s.kind = "delete" -> [Visited(s, local \ {s.to}) EXCEPT !.raised = s.to \notin local]
    [] s.kind = "call" -> WrapValue(s, local)
    [] s.kind = "choose" -> IF IsStatic(s) THEN Visited(s, local \cup {s.to})
                            ELSE WrapValue(s, local)
    [] s.kind = "for" -> LET body == VisitAll(s.body, local \cup {s.to}) IN
                         [body EXCEPT !.code = [s EXCEPT !.body = body.code]]
    [] s.kind = "if" -> IF IsStatic(s) THEN VisitLive(s, local)
                        ELSE IF IsValid(s, FALSE) THEN WrapStatement(s, local)
                        ELSE Visited(s, local)

-----------------------------------------------------------------------------
(* Running a function *)

Unbound == <<>>
Machine(env) == [env |-> env, status |-> "running", result |-> Unbound]
Value(m, name) == IF name \in Globals THEN <<"global", name>> ELSE m.env[name]
IsBound(m, reads) == \A name \in reads : Value(m, name) # Unbound
Applied(m, op, reads) == <<op, [name \in reads |-> Value(m, name)]>>
Raising(m) == [m EXCEPT !.status = "raised"]
Bind(m, name, value) == [m EXCEPT !.env[name] = value]
Truth(test) == IF test \in Tests THEN outcome[test] ELSE test = "true"

SetTo(m, s, reads) ==
  IF IsBound(m, reads) THEN Bind(m, s.to, Applied(m, s.op, reads)) ELSE Raising(m)

(* The frame of a wrapper: its arguments, and None for the others it may return. *)
Frame(m, args, defaults) ==
  Machine([name \in Identifiers |-> IF name \in args THEN m.env[name]
                              ELSE IF name \in defaults THEN <<"None">> ELSE Unbound])

RECURSIVE Execute(_, _)
ExecuteAll(m, stmts) == FoldLeft(Execute, m, stmts)
Execute(m, s) ==
  CASE m.status # "running" -> m
    [] s.kind \in {"assign", "call"} -> SetTo(m, s, s.reads)
    [] s.kind = "choose" -> SetTo(m, s, s.reads \cup IF Truth(s.test) THEN s.body ELSE s.orelse)
    [] s.kind = "augment" -> SetTo(m, s, {s.to})
    [] s.kind = "delete" -> IF IsBound(m, {s.to}) THEN Bind(m, s.to, Unbound) ELSE Raising(m)
    [] s.kind = "return" ->
         IF IsBound(m, s.reads)
         THEN [m EXCEPT !.status = "returned", !.result = Applied(m, "return", s.reads)]
         ELSE Raising(m)
    [] s.kind = "break" -> [m EXCEPT !.status = "broken"]
    [] s.kind = "if" -> IF ~IsBound(m, s.reads) THEN Raising(m)
                        ELSE ExecuteAll(m, IF Truth(s.test) THEN s.body ELSE s.orelse)
    [] s.kind = "for" ->
         IF ~IsBound(m, s.reads) THEN Raising(m)
         ELSE IF ~Truth(s.test) THEN m
         ELSE LET ran == ExecuteAll(Bind(m, s.to, Applied(m, "item", s.reads)), s.body) IN
              IF ran.status = "broken" THEN [ran EXCEPT !.status = "running"] ELSE ran
    [] s.kind = "wrapped" ->
         LET ran == Execute(Frame(m, s.args, s.defaults), s.code) IN
         IF IsBound(m, s.args) /\ ran.status = "running" /\ IsBound(ran, s.returns)
         THEN [m EXCEPT !.env = [name \in Identifiers |->
                 IF name \in s.returns THEN ran.env[name] ELSE @[name]]]
         ELSE Raising(m)
    [] s.kind = "wrappedValue" ->
         LET ran == Execute(Frame(m, s.args, {}), s.code) IN
         IF IsBound(m, s.args) /\ ran.status = "running" THEN Bind(m, s.to, ran.env[s.to])
         ELSE Raising(m)

-----------------------------------------------------------------------------
(* The rewriting and the two runs *)

AutowrapInit ==
  /\ forward \in Forwards
  /\ wrapAt = 1 /\ wrapStage = "visit"
  /\ localNames = Parameters /\ wrapped = <<>>
  /\ outcome = [t \in Tests |-> FALSE]
  /\ original = Machine([name \in Identifiers |->
                  IF name \in Parameters THEN <<"argument", name>> ELSE Unbound])
  /\ rewritten = original

VisitStatement ==
  /\ wrapStage = "visit" /\ wrapAt \in DOMAIN forward
  /\ LET v == Visit(forward[wrapAt], localNames) IN
       /\ localNames' = v.local
       /\ wrapped' = Append(wrapped, v.code)
       /\ wrapStage' = IF v.raised THEN "failed" ELSE "visit"
  /\ wrapAt' = wrapAt + 1
  /\ UNCHANGED <<forward, outcome, original, rewritten>>

CallForward ==
  /\ wrapStage = "visit" /\ wrapAt > Len(forward)
  /\ outcome' \in [Tests -> BOOLEAN]
  /\ wrapStage' = "run" /\ wrapAt' = 1
  /\ UNCHANGED <<forward, localNames, wrapped, original, rewritten>>

RunStatement ==
  /\ wrapStage = "run" /\ wrapAt \in DOMAIN forward
  /\ original' = Execute(original, forward[wrapAt])
  /\ rewritten' = Execute(rewritten, wrapped[wrapAt])
  /\ wrapAt' = wrapAt + 1
  /\ UNCHANGED <<forward, wrapStage, localNames, wrapped, outcome>>

AutowrapNext == VisitStatement \/ CallForward \/ RunStatement

AutowrapSpec == AutowrapInit /\ [][AutowrapNext]_wrapVars

-----------------------------------------------------------------------------
(* What is rewritten faithfully *)

(* A statement with all that are nested in it. *)
RECURSIVE Parts(_)
Parts(s) ==
  {s} \cup (IF s.kind \in {"if", "for"} THEN UNION {Parts(s.body[i]) : i \in DOMAIN s.body}
           ELSE {})
      \cup (IF s.kind = "if" THEN UNION {Parts(s.orelse[i]) : i \in DOMAIN s.orelse} ELSE {})

Assigns(s) == {p.to : p \in {x \in Parts(s) : x.kind \notin {"if", "return", "break"}}}
Mentions(s) == Assigns(s) \cup
  UNION {IF p.kind \in {"augment", "delete", "break"} THEN {}
         ELSE IF p.kind = "choose" THEN p.reads \cup p.body \cup p.orelse
         ELSE p.reads : p \in Parts(s)}

LocalBefore(i) == VisitAll(SubSeq(forward, 1, i - 1), Parameters).local

(* Names that NameAnalyzer takes to be assigned by an if, and that the if updates in
   place, or in a loop that need not run. *)
Misjudged(s) ==
  {name \in Analyze(NoNames, s).assigned :
     \E p \in Parts(s) : \/ p.kind = "augment" /\ name = p.to
                         \/ p.kind = "for" /\ name \in Assigns(p)}

IsDynamic(s) == s.kind = "if" /\ ~IsStatic(s)

(* A statement that AutoWrapper rewrites faithfully: a deleted name is one it knows, and
   nested statements delete nothing; names of a wrapped if are judged rightly; names that a loop or an if that stays as it
   is assigns exist before or are not used after it; and a conditional expression does
   not replace a name that does not exist. *)
IsFaithful(i) ==
  LET s == forward[i]
      fresh == Assigns(s) \ LocalBefore(i)
      nested == Parts(s) \ {s}
      Stays(p) == p.kind = "if" /\ IsDynamic(p) /\ ~IsValid(p, FALSE)
  IN /\ s.kind = "delete" => s.to \in LocalBefore(i)
     /\ \A p \in nested : p.kind # "delete"
     /\ \A p \in Parts(s) : IsDynamic(p) => Misjudged(p) = {}
     /\ s.kind = "for" \/ Stays(s) =>
          \A j \in i + 1 .. Len(forward) : Mentions(forward[j]) \cap fresh = {}
     /\ \A p \in nested : Stays(p) => Assigns(p) \subseteq LocalBefore(i)
     /\ s.kind = "choose" => s.to \notin s.reads \cup s.body \cup s.orelse \/ fresh = {}

-----------------------------------------------------------------------------
(* Properties *)

(* Wherever the original gets without raising, what it has become gets with the same
   values of all names and the same result. *)
RunsAgree ==
  original.status # "raised" =>
    /\ rewritten.status = original.status /\ rewritten.result = original.result
    /\ \A name \in Identifiers :
         original.env[name] # Unbound => rewritten.env[name] = original.env[name]

(* The forward functions of the patterns that AutoWrapper supports compute what they did
   before, whatever the data decides and whichever of their statements were wrapped. *)
WrappingIsInvisible ==
  (\A i \in DOMAIN forward : IsFaithful(i)) => wrapStage # "failed" /\ RunsAgree
=============================================================================
