---------------------------- MODULE CheckoutProofs ----------------------------
(***************************************************************************)
(* Theorems about Checkout.tla, for every request, every set of lines that *)
(* git and a remote may print, and every bound on what an error keeps.     *)
(***************************************************************************)
EXTENDS Checkout, TLAPS

Before == {"idle", "validate", "mkdir"}
Running == {"hook", "perform", "open"}
Lines == [by : {"git", "remote"}, text : Banner \union Transient \union Permanent]

Typed ==
    /\ request \in Requests
    /\ pc \in Before \union {"env"} \union Running \union Ended
    /\ dir \in {"none", "empty", "partial", "complete", "removed"}
    /\ git \in {"unstarted", "running", "ok", "failed", "killed"}
    /\ performed \in {"none", "nil", "error"}
    /\ performs \in 0..2
    /\ minted \in BOOLEAN /\ helpers \in BOOLEAN /\ cancelled \in BOOLEAN
    /\ stderr \in Seq(Lines)

\* Where the directory is, at every point of CheckoutRef.
DirectoryInv ==
    /\ pc \in Before => dir = "none"
    /\ pc = "env" => dir = "empty"
    /\ pc \in Running \union {"tree"} => dir \in {"empty", "partial", "complete"}
    /\ pc = "error" => dir \in {"none", "removed"}
    /\ pc \in {"gone", "closed"} => dir = "removed"
    /\ dir = "none" => performs = 0
    /\ git = "ok" => dir \in {"complete", "removed"}

\* Nothing runs before the hook performs the command, and only a hook that does
\* not wait returns before all of it has ended.
ProcessInv ==
    /\ pc \in Before \union {"env"} => performs = 0
    /\ performs = 0 => git = "unstarted" /\ ~helpers /\ performed = "none" /\ stderr = <<>>
    /\ pc = "perform" => performs > 0
    /\ pc # "perform" /\ request.hook # "impatient" => ~Working
    /\ performed = "nil" => git = "ok"
    /\ Obedient /\ pc \in {"open", "tree"} => git = "ok"

\* What git itself did and said is about the remote.
TruthInv ==
    /\ git = "ok" => request.exists
    /\ \A i \in DOMAIN stderr :
           stderr[i].by = "git" /\ stderr[i].text \in Permanent => ~request.exists
    /\ GoneIffMissing

IInv == Typed /\ DirectoryInv /\ ProcessInv /\ TruthInv

-----------------------------------------------------------------------------

LEMMA InitIInv == Init => IInv
  <1> SUFFICES ASSUME Init PROVE IInv
    OBVIOUS
  <1>1. stderr \in Seq(Lines) /\ DOMAIN stderr = {}
    BY DEF Init
  <1>2. Typed
    <2>1. performs \in 0..2 /\ pc \in Before
      BY DEF Init, Before
    <2> QED BY <1>1, <2>1 DEF Init, Typed
  <1>3. DirectoryInv /\ ProcessInv
    BY DEF Init, DirectoryInv, ProcessInv, Before, Running, Working
  <1>4. TruthInv
    BY <1>1 DEF Init, TruthInv, GoneIffMissing, GoneIsTrue, MissingIsGone, SaidMissing
  <1> QED BY <1>2, <1>3, <1>4 DEF IInv

\* The lines an error keeps are the first MaxStderr of those that were printed.
LEMMA KeptLines ==
  ASSUME NEW lines \in Seq(Lines)
  PROVE  /\ CloneError(lines) \in {"gone", "error"}
         /\ CloneError(lines) = "gone" <=>
                \E i \in 1..MaxStderr : i \in DOMAIN lines /\ lines[i].text \in Permanent
  <1>1. MaxStderr \in Nat \ {0}
    BY CheckoutAssumption
  <1>2. CASE Len(lines) <= MaxStderr
    <2>1. Sanitized(lines) = lines
      BY <1>2 DEF Sanitized
    <2>2. \A i \in DOMAIN lines : i \in 1..MaxStderr
      BY <1>1, <1>2
    <2> QED BY <2>1, <2>2 DEF CloneError
  <1>3. CASE ~(Len(lines) <= MaxStderr)
    <2>1. Sanitized(lines) = SubSeq(lines, 1, MaxStderr)
      BY <1>3 DEF Sanitized
    <2>2. /\ DOMAIN SubSeq(lines, 1, MaxStderr) = 1..MaxStderr
          /\ \A i \in 1..MaxStderr : i \in DOMAIN lines /\ SubSeq(lines, 1, MaxStderr)[i] = lines[i]
      BY <1>1, <1>3
    <2> QED BY <2>1, <2>2 DEF CloneError
  <1> QED BY <1>2, <1>3

\* A line that is appended leaves the others where they are.
LEMMA Appended ==
  ASSUME NEW lines \in Seq(Lines), NEW line \in Lines
  PROVE  /\ Append(lines, line) \in Seq(Lines)
         /\ \A i \in DOMAIN Append(lines, line) :
                \/ i \in DOMAIN lines /\ Append(lines, line)[i] = lines[i]
                \/ Append(lines, line)[i] = line
         /\ \A i \in DOMAIN lines :
                i \in DOMAIN Append(lines, line) /\ Append(lines, line)[i] = lines[i]
  <1>1. /\ DOMAIN Append(lines, line) = 1..(Len(lines) + 1)
        /\ DOMAIN lines = 1..Len(lines)
        /\ \A i \in 1..Len(lines) : Append(lines, line)[i] = lines[i]
        /\ Append(lines, line)[Len(lines) + 1] = line
    OBVIOUS
  <1> QED BY <1>1

\* Whoever says something, what git says of a missing ref is true, and what was
\* said stays said.
LEMMA SaysTruth ==
  ASSUME IInv, NEW who \in {"git", "remote"},
         NEW line \in Banner \union Transient \union Permanent,
         Says(who, line), request' = request,
         who = "git" /\ line \in Permanent => ~request.exists
  PROVE  /\ stderr' \in Seq(Lines)
         /\ \A i \in DOMAIN stderr' :
                stderr'[i].by = "git" /\ stderr'[i].text \in Permanent => ~request'.exists
         /\ SaidMissing({"remote"}) => SaidMissing({"remote"})'
  <1> DEFINE said == [by |-> who, text |-> line]
  <1>1. said \in Lines /\ said.by = who /\ said.text = line
    BY DEF Lines
  <1>2. stderr \in Seq(Lines) /\ stderr' = Append(stderr, said)
    BY DEF Says, IInv, Typed
  <1> HIDE DEF said
  <1>3. /\ stderr' \in Seq(Lines)
        /\ \A i \in DOMAIN stderr' :
               \/ i \in DOMAIN stderr /\ stderr'[i] = stderr[i]
               \/ stderr'[i] = said
        /\ \A i \in DOMAIN stderr : i \in DOMAIN stderr' /\ stderr'[i] = stderr[i]
    BY <1>1, <1>2, Appended
  <1>4. \A i \in DOMAIN stderr :
           stderr[i].by = "git" /\ stderr[i].text \in Permanent => ~request.exists
    BY DEF IInv, TruthInv
  <1> QED BY <1>1, <1>3, <1>4 DEF SaidMissing

\* The hook returns with an error: the directory is removed, and the outcome is
\* gone exactly when what was kept says so.
LEMMA FailsKeeps ==
  ASSUME IInv, Fails, pc \in {"hook", "perform"},
         request.hook # "impatient" => pc = "hook", performs > 0
  PROVE  IInv'
  <1>1. stderr \in Seq(Lines)
    BY DEF IInv, Typed
  <1>2. /\ pc' \in {"gone", "error"}
        /\ pc' = "gone" <=> \E i \in 1..MaxStderr : i \in DOMAIN stderr /\ stderr[i].text \in Permanent
    BY <1>1, KeptLines DEF Fails
  <1>3. GoneIffMissing'
    <2>1. UNCHANGED <<request, stderr, git>>
      BY DEF Fails, process
    <2>2. \A i \in DOMAIN stderr : stderr[i].by \in {"git", "remote"}
      <3>1. \A i \in DOMAIN stderr : stderr[i] \in Lines
        BY <1>1
      <3> QED BY <3>1 DEF Lines
    <2>3. ASSUME pc' = "gone", request.exists PROVE SaidMissing({"remote"})
      <3>1. PICK i \in 1..MaxStderr : i \in DOMAIN stderr /\ stderr[i].text \in Permanent
        BY <1>2, <2>3
      <3>2. stderr[i].by = "remote"
        BY <2>2, <2>3, <3>1 DEF IInv, TruthInv
      <3> QED BY <3>1, <3>2 DEF SaidMissing
    <2>4. MissingIsGone'
      BY <1>2, <2>1 DEF MissingIsGone, SaidMissing
    <2>5. request' = request /\ SaidMissing({"remote"})' = SaidMissing({"remote"})
      BY <2>1 DEF SaidMissing
    <2> QED BY <2>3, <2>4, <2>5 DEF GoneIffMissing, GoneIsTrue
  <1>4. Typed'
    BY <1>2 DEF Fails, process, hook, Cleanup, IInv, Typed, Ended
  <1>5. DirectoryInv'
    BY <1>2 DEF Fails, process, hook, Cleanup, IInv, Typed, DirectoryInv, Before, Running
  <1>6. ProcessInv'
    BY <1>2 DEF Fails, process, hook, IInv, Typed, ProcessInv, Before, Working, Obedient
  <1> QED BY <1>3, <1>4, <1>5, <1>6 DEF IInv, TruthInv, Fails, process

LEMMA NextIInv == IInv /\ [Next]_vars => IInv'
  <1> SUFFICES ASSUME IInv, [Next]_vars PROVE IInv'
    OBVIOUS
  <1> USE DEF IInv, Typed, DirectoryInv, ProcessInv, TruthInv, Before, Running, Ended, Working,
          GoneIffMissing, GoneIsTrue, MissingIsGone, SaidMissing, Obedient, process, hook
  <1>1. CASE Call
    BY <1>1 DEF Call
  <1>2. CASE Validate
    BY <1>2 DEF Validate
  <1>3. CASE MkdirTemp
    BY <1>3 DEF MkdirTemp
  <1>4. CASE Environment
    BY <1>4 DEF Environment, Mints
  <1>5. CASE Perform
    <2>1. /\ performs \in {0, 1} /\ performs' = performs + 1
          /\ performs' \in {1, 2} /\ performs' > 0
      BY <1>5 DEF Perform
    <2>2. CASE pc' = "perform"
      <3>1. performs = 0 /\ stderr = <<>>
        BY <1>5, <2>2 DEF Perform
      <3>2. Typed'
        BY <1>5, <2>1, <2>2 DEF Perform
      <3>3. DirectoryInv' /\ ProcessInv'
        BY <1>5, <2>1, <2>2, <3>1 DEF Perform
      <3>4. TruthInv'
        BY <1>5, <2>2, <3>1 DEF Perform
      <3> QED BY <3>2, <3>3, <3>4
    <2>3. CASE pc' # "perform"
      <3>1. pc' = pc /\ performed' = "error" /\ UNCHANGED process
        BY <1>5, <2>3 DEF Perform
      <3>2. Typed'
        BY <1>5, <2>1, <3>1 DEF Perform
      <3>3. DirectoryInv' /\ ProcessInv'
        BY <1>5, <2>1, <3>1 DEF Perform
      <3>4. TruthInv'
        BY <1>5, <3>1 DEF Perform
      <3> QED BY <3>2, <3>3, <3>4
    <2> QED BY <2>2, <2>3
  <1>6. CASE HookReturns
    <2>1. CASE pc = "hook" /\ HookError /\ Fails
      BY <2>1, FailsKeeps DEF HookError
    <2>2. CASE pc = "hook" /\ HookNil /\ Succeeds
      BY <2>2 DEF HookNil, Succeeds
    <2>3. CASE pc = "perform" /\ request.hook = "impatient" /\ cancelled /\ Fails
      <3>1. performs > 0
        BY <2>3
      <3> QED BY <2>3, <3>1, FailsKeeps
    <2> QED BY <1>6, <2>1, <2>2, <2>3 DEF HookReturns
  <1>7. CASE Wait
    BY <1>7 DEF Wait, NobodyWrites, RunFailed
  <1>8. CASE OpenRoot
    BY <1>8 DEF OpenRoot, Cleanup
  <1>9. CASE Close
    BY <1>9 DEF Close, Cleanup
  <1>10. CASE RemoteSays
    <2>1. /\ stderr' \in Seq(Lines)
          /\ \A i \in DOMAIN stderr' :
                 stderr'[i].by = "git" /\ stderr'[i].text \in Permanent => ~request'.exists
          /\ SaidMissing({"remote"}) => SaidMissing({"remote"})'
      BY <1>10, SaysTruth DEF RemoteSays
    <2> QED BY <1>10, <2>1 DEF RemoteSays
  <1>11. CASE Writes
    BY <1>11 DEF Writes
  <1>12. CASE GitSucceeds
    BY <1>12 DEF GitSucceeds
  <1>13. CASE GitFails
    <2>1. /\ stderr' \in Seq(Lines)
          /\ \A i \in DOMAIN stderr' :
                 stderr'[i].by = "git" /\ stderr'[i].text \in Permanent => ~request'.exists
          /\ SaidMissing({"remote"}) => SaidMissing({"remote"})'
      BY <1>13, SaysTruth, CheckoutAssumption DEF GitFails
    <2> QED BY <1>13, <2>1 DEF GitFails
  <1>14. CASE Kill
    BY <1>14 DEF Kill
  <1>15. CASE HelperEnds
    <2>1. Typed' /\ DirectoryInv'
      BY <1>15 DEF HelperEnds
    <2>2. ProcessInv'
      BY <1>15 DEF HelperEnds
    <2>3. TruthInv'
      BY <1>15 DEF HelperEnds
    <2> QED BY <2>1, <2>2, <2>3
  <1>16. CASE Cancel
    BY <1>16 DEF Cancel
  <1>17. CASE UNCHANGED vars
    BY <1>17 DEF vars
  <1> QED BY <1>1, <1>2, <1>3, <1>4, <1>5, <1>6, <1>7, <1>8, <1>9, <1>10, <1>11, <1>12,
          <1>13, <1>14, <1>15, <1>16, <1>17 DEF Next

LEMMA Invariance == Spec => []IInv
  BY InitIInv, NextIInv, PTL DEF Spec

-----------------------------------------------------------------------------

\* Whatever fails and whoever cancels, a caller is given a whole tree, and once
\* the directory has been removed nobody writes there (CheckoutRef, Tree.Close).
THEOREM DirectoryKept == Spec => []DirectoryIsKept
  <1>1. IInv => DirectoryIsKept
    BY DEF IInv, Typed, DirectoryInv, ProcessInv, DirectoryIsKept, TreeIsWhole,
       NobodyInRemoved, Before, Running, Ended
  <1> QED BY <1>1, Invariance, PTL

\* Whatever a remote prints, a checkout is given up for good only of a ref that
\* is missing or that the remote called missing, and it is when either was said
\* within what an error keeps (cloneError).
THEOREM GoneExactlyWhenMissing == Spec => []GoneIffMissing
  <1>1. IInv => GoneIffMissing
    BY DEF IInv, TruthInv
  <1> QED BY <1>1, Invariance, PTL

-----------------------------------------------------------------------------

LEMMA HeldIsTree == IInv => Held = IF pc = "tree" THEN {"clone"} ELSE {}
  BY DEF IInv, DirectoryInv, Running, Ended, Held, Typed

\* What the contract sees of a checkout.
LEMMA Seen ==
  /\ DOMAIN Result = {"clone"} /\ DOMAIN Size = {"clone"}
  /\ Size["clone"] = 0
  /\ Size' = Size
  /\ Result["clone"] = IF pc = "tree" THEN "artifact"
                       ELSE IF pc \in Ended \union {"idle"} THEN pc ELSE "running"
  BY DEF Result, Size

\* Only these steps change what the contract sees of where a checkout is.
LEMMA StepOfResult ==
  ASSUME IInv, IInv', [Next]_vars
  PROVE  \/ pc' = pc
         \/ {pc, pc'} \subseteq {"validate", "mkdir", "env"} \union Running
         \/ pc = "idle" /\ pc' = "validate"
         \/ pc \notin Ended \union {"idle"} /\ pc' \in {"gone", "error", "tree"}
         \/ pc = "tree" /\ pc' = "closed"
  <1> USE DEF Running, Ended
  <1>1. CASE Call \/ Validate \/ MkdirTemp \/ Environment \/ OpenRoot \/ Close \/ Wait
    BY <1>1 DEF Call, Validate, MkdirTemp, Environment, OpenRoot, Close, Wait
  <1>2. CASE Perform
    BY <1>2 DEF Perform
  <1>3. CASE HookReturns
    <2>1. CASE Fails
      <3>1. pc' \in {"gone", "error"}
        BY <2>1, KeptLines DEF IInv, Typed, Fails
      <3> QED BY <1>3, <3>1 DEF HookReturns
    <2>2. CASE Succeeds
      BY <1>3, <2>2 DEF HookReturns, Succeeds
    <2> QED BY <1>3, <2>1, <2>2 DEF HookReturns
  <1>4. CASE RemoteSays \/ Writes \/ GitSucceeds \/ GitFails \/ Kill \/ HelperEnds \/ Cancel
    BY <1>4 DEF RemoteSays, Writes, GitSucceeds, GitFails, Kill, HelperEnds, Cancel
  <1>5. CASE UNCHANGED vars
    BY <1>5 DEF vars
  <1> QED BY <1>1, <1>2, <1>3, <1>4, <1>5 DEF Next

\* Every step of a checkout is a step of the contract, or none.
LEMMA ContractStep ==
  IInv /\ IInv' /\ [Next]_vars => [Contract!ContractNext]_(Contract!contractVars)
  <1> SUFFICES ASSUME IInv, IInv', [Next]_vars
               PROVE  Contract!ContractNext \/ UNCHANGED Contract!contractVars
    OBVIOUS
  <1> DEFINE to(r) == Result' = [Result EXCEPT !["clone"] = r]
  <1>1. /\ Held = IF pc = "tree" THEN {"clone"} ELSE {}
        /\ Held' = IF pc' = "tree" THEN {"clone"} ELSE {}
    <2>1. IInv' => (Held = IF pc = "tree" THEN {"clone"} ELSE {})'
      BY HeldIsTree, PTL
    <2> QED BY <2>1, HeldIsTree
  <1>2. CASE \/ pc' = pc
             \/ {pc, pc'} \subseteq {"validate", "mkdir", "env"} \union Running
    <2>1. Result' = Result /\ Held' = Held
      BY <1>1, <1>2 DEF Result, Running, Ended
    <2> QED BY <2>1, Seen DEF Contract!contractVars
  <1>3. CASE pc = "idle" /\ pc' = "validate"
    <2>1. Result["clone"] = "idle" /\ to("running") /\ Held' = Held
      BY <1>1, <1>3 DEF Result, Ended
    <2> QED BY <2>1, Seen DEF Contract!ContractNext, Contract!Call
  <1>4. CASE pc \notin Ended \union {"idle"} /\ pc' \in {"gone", "error"}
    <2>1. Result["clone"] = "running" /\ to(pc') /\ Held' = Held
      BY <1>1, <1>4 DEF Result, Ended
    <2> QED BY <1>4, <2>1, Seen DEF Contract!ContractNext, Contract!Refuse
  <1>5. CASE pc \notin Ended \union {"idle"} /\ pc' = "tree"
    <2>1. Result["clone"] = "running" /\ to("artifact") /\ Held' = Held \union {"clone"}
      BY <1>1, <1>5 DEF Result, Ended
    <2>2. Size' = [Size EXCEPT !["clone"] = 0] /\ 0 \in 0..Size["clone"]
      BY Seen DEF Size
    <2> QED BY <2>1, <2>2 DEF Contract!ContractNext, Contract!Deliver
  <1>6. CASE pc = "tree" /\ pc' = "closed"
    <2>1. Result["clone"] = "artifact" /\ to("closed") /\ "clone" \in Held /\ Held' = Held \ {"clone"}
      BY <1>1, <1>6 DEF Result, Ended
    <2> QED BY <2>1, Seen DEF Contract!ContractNext, Contract!Release
  <1> QED BY <1>2, <1>3, <1>4, <1>5, <1>6, StepOfResult

\* A checkout keeps the contract of a fetch: it ends once, and leaves a directory
\* only with a tree, until that is closed (CheckoutRef).
THEOREM CheckoutKeepsContract == Spec => ImplementsContract
  <1>1. Init => Contract!ContractInit
    BY DEF Init, Contract!ContractInit, Result, Size, Held, Ended
  <1> QED BY <1>1, ContractStep, Invariance, PTL
          DEF Spec, ImplementsContract, Contract!ContractSafety

\* The state of a checkout has its types, the hook having performed the command at
\* most twice (TypeOK).
THEOREM TypeCorrect == Spec => []TypeOK
  <1>1. IInv => TypeOK
    BY DEF IInv, Typed, TypeOK, Before, Running, Ended, Lines
  <1> QED BY <1>1, Invariance, PTL

-----------------------------------------------------------------------------
(* The environment of the command.                                         *)

Keys == {"HTTPS_PROXY", "GIT_TERMINAL_PROMPT", "GIT_CONFIG_PARAMETERS"}
Values == {"inherited", "credential", "0"}
Variables == [key : Keys, values : SUBSET Values]

LEMMA VariableIs ==
  ASSUME NEW name \in Keys, NEW values \in SUBSET Values
  PROVE  /\ Variable(name, values) \in Variables
         /\ Variable(name, values).key = name
         /\ Variable(name, values).values = values
  BY DEF Variable, Variables

\* What is appended last is what a process sees.
LEMMA LastIsSeen ==
  ASSUME NEW environ \in Seq(Variables), NEW v \in Variables, NEW key
  PROVE  Getenv(Append(environ, v), key) =
             IF v.key = key THEN v.values ELSE Getenv(environ, key)
  <1> DEFINE longer == Append(environ, v)
             n == Len(environ)
             last(e) == {j \in DOMAIN e :
                            e[j].key = key /\ \A k \in DOMAIN e : e[k].key = key => k <= j}
  <1>1. /\ n \in Nat /\ DOMAIN environ = 1..n /\ DOMAIN longer = 1..(n + 1)
        /\ longer[n + 1] = v
        /\ \A i \in 1..n : longer[i] = environ[i]
    OBVIOUS
  <1>2. /\ Getenv(longer, key) = UNION {longer[i].values : i \in last(longer)}
        /\ Getenv(environ, key) = UNION {environ[i].values : i \in last(environ)}
    BY DEF Getenv
  <1> HIDE DEF longer, n
  <1>3. CASE v.key = key
    <2>1. last(longer) = {n + 1}
      BY <1>1, <1>3
    <2> HIDE DEF last
    <2>2. Getenv(longer, key) = UNION {longer[n + 1].values}
      BY <1>2, <2>1
    <2>3. UNION {v.values} = v.values
      OBVIOUS
    <2> QED BY <1>1, <1>3, <2>2, <2>3 DEF longer
  <1>4. CASE v.key # key
    <2>1. last(longer) = last(environ) /\ last(environ) \subseteq 1..n
      BY <1>1, <1>4
    <2> HIDE DEF last
    <2>2. \A i \in last(environ) : longer[i].values = environ[i].values
      BY <1>1, <2>1
    <2>3. {longer[i].values : i \in last(longer)} = {environ[i].values : i \in last(environ)}
      BY <2>1, <2>2
    <2> QED BY <1>2, <1>4, <2>3 DEF longer
  <1> QED BY <1>3, <1>4

\* Likewise of the pieces that CloneEnv is made of: the surrounding process's
\* variable, which is there or not.
LEMMA KeptIsSeen ==
  ASSUME NEW environ \in Seq(Variables), NEW r \in Requests,
         NEW name \in Keys, NEW key
  PROVE  /\ environ \o Kept(r, name) \in Seq(Variables)
         /\ Getenv(environ \o Kept(r, name), key) =
                IF name = key /\ name \in r.inherited THEN {"inherited"}
                ELSE Getenv(environ, key)
  <1> DEFINE v == Variable(name, {"inherited"})
  <1>1. v \in Variables /\ v.key = name /\ v.values = {"inherited"}
    <2>1. {"inherited"} \in SUBSET Values
      BY DEF Values
    <2> QED BY <2>1, VariableIs
  <1> HIDE DEF v
  <1>2. CASE name \in r.inherited
    <2>1. environ \o Kept(r, name) = environ \o <<v>>
      BY <1>2 DEF Kept, v
    <2>2. environ \o <<v>> = Append(environ, v) /\ Append(environ, v) \in Seq(Variables)
      BY <1>1
    <2>3. Getenv(Append(environ, v), key) =
              IF name = key THEN {"inherited"} ELSE Getenv(environ, key)
      BY <1>1, LastIsSeen
    <2> QED BY <1>2, <2>1, <2>2, <2>3
  <1>3. CASE name \notin r.inherited
    <2>1. environ \o Kept(r, name) = environ
      BY <1>3 DEF Kept
    <2> QED BY <1>3, <2>1
  <1> QED BY <1>2, <1>3

\* An environment that is put together like CloneEnv's.
Layers(r, prompt, params, never, granted, grants) ==
    Kept(r, prompt) \o Kept(r, params) \o <<never>> \o (IF grants THEN <<granted>> ELSE <<>>)

LEMMA Layered ==
  ASSUME NEW r \in Requests, NEW prompt \in Keys, NEW params \in Keys,
         NEW proxy \in Keys, prompt # params, proxy # prompt, proxy # params,
         NEW never \in Variables, never.key = prompt,
         NEW granted \in Variables, granted.key = params,
         NEW grants \in BOOLEAN
  PROVE  LET environ == Layers(r, prompt, params, never, granted, grants) IN
         /\ Getenv(environ, proxy) = {}
         /\ Getenv(environ, prompt) = never.values
         /\ Getenv(environ, params) = IF grants THEN granted.values
                                      ELSE IF params \in r.inherited THEN {"inherited"} ELSE {}
  <1> DEFINE e1 == Kept(r, prompt)
             e2 == e1 \o Kept(r, params)
             e3 == e2 \o <<never>>
             e4 == e3 \o (IF grants THEN <<granted>> ELSE <<>>)
  <1>1. /\ e1 \in Seq(Variables)
        /\ Getenv(e1, proxy) = {} /\ Getenv(e1, params) = {}
    <2>1. <<>> \in Seq(Variables) /\ <<>> \o e1 = e1
      BY DEF Kept
    <2>2. Getenv(<<>>, proxy) = {} /\ Getenv(<<>>, params) = {}
      BY DEF Getenv
    <2>3. \A key : /\ <<>> \o Kept(r, prompt) \in Seq(Variables)
                   /\ Getenv(<<>> \o Kept(r, prompt), key) =
                        IF prompt = key /\ prompt \in r.inherited THEN {"inherited"}
                        ELSE Getenv(<<>>, key)
      <3> TAKE key
      <3> DEFINE none == <<>>
      <3>1. none \in Seq(Variables)
        BY <2>1
      <3> HIDE DEF none
      <3>2. /\ none \o Kept(r, prompt) \in Seq(Variables)
            /\ Getenv(none \o Kept(r, prompt), key) =
                 IF prompt = key /\ prompt \in r.inherited THEN {"inherited"}
                 ELSE Getenv(none, key)
        BY <3>1, KeptIsSeen
      <3> QED BY <3>2 DEF none
    <2> QED BY <2>1, <2>2, <2>3
  <1> HIDE DEF e1
  <1>2. \A key : /\ e2 \in Seq(Variables)
                 /\ Getenv(e2, key) =
                      IF params = key /\ params \in r.inherited THEN {"inherited"}
                      ELSE Getenv(e1, key)
    <2> TAKE key
    <2> QED BY <1>1, KeptIsSeen
  <1> HIDE DEF e2
  <1>3. \A key : /\ e3 \in Seq(Variables)
                 /\ Getenv(e3, key) = IF prompt = key THEN never.values ELSE Getenv(e2, key)
    <2> TAKE key
    <2>1. e3 = Append(e2, never) /\ e3 \in Seq(Variables)
      BY <1>2
    <2> HIDE DEF e3
    <2> QED BY <1>2, <2>1, LastIsSeen
  <1> HIDE DEF e3
  <1>4. CASE grants
    <2>1. e4 = Append(e3, granted)
      BY <1>3, <1>4
    <2> HIDE DEF e4
    <2>2. \A key : Getenv(e4, key) = IF params = key THEN granted.values ELSE Getenv(e3, key)
      <3> TAKE key
      <3> QED BY <1>3, <2>1, LastIsSeen
    <2>3. /\ Getenv(e4, proxy) = {} /\ Getenv(e4, prompt) = never.values
          /\ Getenv(e4, params) = granted.values
      BY <1>1, <1>2, <1>3, <2>2
    <2> QED BY <1>4, <2>3 DEF Layers, e4, e3, e2, e1
  <1>5. CASE ~grants
    <2>1. e4 = e3
      BY <1>3, <1>5
    <2> HIDE DEF e4
    <2>2. /\ Getenv(e4, proxy) = {} /\ Getenv(e4, prompt) = never.values
          /\ Getenv(e4, params) = IF params \in r.inherited THEN {"inherited"} ELSE {}
      BY <1>1, <1>2, <1>3, <2>1
    <2> QED BY <1>5, <2>2 DEF Layers, e4, e3, e2, e1
  <1> QED BY <1>4, <1>5

\* The three names and what is put under them.
LEMMA Names ==
  ASSUME NEW r \in Requests
  PROVE  /\ "HTTPS_PROXY" \in Keys /\ "GIT_TERMINAL_PROMPT" \in Keys
         /\ "GIT_CONFIG_PARAMETERS" \in Keys
         /\ {"0"} \in SUBSET Values /\ Param(r) \in SUBSET Values
         /\ Param(r) = {"credential"} \union
                (IF "GIT_CONFIG_PARAMETERS" \in r.inherited THEN {"inherited"} ELSE {})
  BY DEF Keys, Values, Param

LEMMA CloneEnvIs ==
  ASSUME NEW r \in Requests
  PROVE  /\ Getenv(CloneEnv(r), "HTTPS_PROXY") = {}
         /\ Getenv(CloneEnv(r), "GIT_TERMINAL_PROMPT") = {"0"}
         /\ Getenv(CloneEnv(r), "GIT_CONFIG_PARAMETERS") =
               {v \in {"inherited", "credential"} :
                   IF v = "inherited" THEN "GIT_CONFIG_PARAMETERS" \in r.inherited
                   ELSE r.token = "value" /\ r.host \in AuthHosts}
  <1> DEFINE proxy == "HTTPS_PROXY"
             prompt == "GIT_TERMINAL_PROMPT"
             params == "GIT_CONFIG_PARAMETERS"
             never  == Variable(prompt, {"0"})
             granted == Variable(params, Param(r))
             grants == r.token = "value" /\ r.host \in AuthHosts
  <1>1. /\ never \in Variables /\ never.key = prompt /\ never.values = {"0"}
        /\ granted \in Variables /\ granted.key = params /\ granted.values = Param(r)
    BY Names, VariableIs
  <1>2. CloneEnv(r) = Layers(r, prompt, params, never, granted, grants)
    BY DEF Layers, CloneEnv, AuthEnv, Mints, AuthorizedHost
  <1>3. grants \in BOOLEAN
    OBVIOUS
  <1>4. /\ proxy \in Keys /\ prompt \in Keys /\ params \in Keys
        /\ prompt # params /\ proxy # prompt /\ proxy # params
    BY Names
  <1>5. /\ Getenv(CloneEnv(r), proxy) = {}
        /\ Getenv(CloneEnv(r), prompt) = never.values
        /\ Getenv(CloneEnv(r), params) = IF grants THEN granted.values
                                         ELSE IF params \in r.inherited THEN {"inherited"} ELSE {}
    <2> HIDE DEF never, granted, grants, proxy, prompt, params
    <2> QED BY <1>1, <1>2, <1>3, <1>4, Layered
  <1> HIDE DEF never, granted, grants
  <1>6. {v \in {"inherited", "credential"} :
             IF v = "inherited" THEN params \in r.inherited ELSE grants} =
        (IF params \in r.inherited THEN {"inherited"} ELSE {})
            \union (IF grants THEN {"credential"} ELSE {})
    OBVIOUS
  <1> QED BY Names, <1>1, <1>5, <1>6 DEF grants

\* A command runs in the environment that was made for its request.
EnvInv ==
    /\ pc \in {"hook", "perform"} => env = CloneEnv(request)
    /\ git # "unstarted" => env = CloneEnv(request)

\* Whatever the surrounding process has set and whoever the host is, the command
\* goes through no proxy, never prompts, and has the credential exactly when there
\* is one for that host (CommandSees).
THEOREM EnvironmentIsSet == Spec => []CommandSees
  <1>1. Init => EnvInv
    BY DEF Init, EnvInv
  <1>2. IInv /\ EnvInv /\ [Next]_vars => EnvInv'
    <2> SUFFICES ASSUME IInv, EnvInv, [Next]_vars PROVE EnvInv'
      OBVIOUS
    <2>1. CASE Environment
      <3>1. git = "unstarted"
        BY <2>1 DEF Environment, IInv, ProcessInv
      <3> QED BY <2>1, <3>1 DEF Environment, EnvInv, process
    <2>2. CASE Perform
      BY <2>2 DEF Perform, EnvInv, process
    <2>3. CASE HookReturns
      <3>1. pc' \notin {"hook", "perform"}
        <4>1. CASE Fails
          BY <4>1, KeptLines DEF Fails, IInv, Typed
        <4>2. CASE Succeeds
          BY <4>2 DEF Succeeds
        <4> QED BY <2>3, <4>1, <4>2 DEF HookReturns
      <3> QED BY <2>3, <3>1 DEF HookReturns, Fails, Succeeds, EnvInv, process
    <2>4. CASE UNCHANGED vars
      BY <2>4 DEF vars, EnvInv
    <2>5. CASE \/ Call \/ Validate \/ MkdirTemp \/ Wait \/ OpenRoot \/ Close
      BY <2>5 DEF Call, Validate, MkdirTemp, Wait, OpenRoot, Close, EnvInv, process
    <2>6. CASE \/ RemoteSays \/ Writes \/ GitSucceeds \/ GitFails \/ Kill
               \/ HelperEnds \/ Cancel
      BY <2>6 DEF RemoteSays, Writes, GitSucceeds, GitFails, Kill, HelperEnds, Cancel,
                  EnvInv, process
    <2> QED BY <2>1, <2>2, <2>3, <2>4, <2>5, <2>6 DEF Next
  <1>3. IInv /\ EnvInv => CommandSees
    BY CloneEnvIs DEF IInv, Typed, EnvInv, CommandSees
  <1> QED BY <1>1, <1>2, <1>3, Invariance, PTL DEF Spec
=============================================================================
