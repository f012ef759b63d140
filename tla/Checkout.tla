------------------------------ MODULE Checkout ------------------------------
(***************************************************************************)
(* upstream/checkout.go: a shallow clone of one ref into a temporary       *)
(* directory, handed to the caller as a tree that has to be closed.        *)
(*                                                                         *)
(* git is another process, with helpers that outlive it for a while and    *)
(* share its standard error.  A remote may send along any text, and may    *)
(* fall silent.  The caller's hook stands between CheckoutRef and git, and *)
(* the caller may cancel at any time.                                      *)
(***************************************************************************)
EXTENDS Naturals, Sequences

CONSTANTS
    Requests,   \* what CheckoutRef may be called with, and in which world
    AuthHosts,  \* the hosts a credential may be offered to
    Permanent,  \* lines that read as if a ref or repository were missing
    Transient,  \* the lines of git's own that say anything else
    Banner,     \* the lines a remote sends along, permanent ones included
    MaxStderr,  \* maxStderrChars, in lines
    MaxLines    \* bound on the lines a remote sends

\* A request: what the caller passes, and whether the URL stands validation, the
\* remote shows the ref to one who asks so, and the process inherited an
\* environment.
ASSUME CheckoutAssumption ==
    /\ Requests \subseteq
        [url : BOOLEAN, ref : BOOLEAN, host : STRING, exists : BOOLEAN,
         token : {"none", "fails", "empty", "value"},
         hook : {"plain", "retries", "raises", "mute", "absent", "impatient"},
         inherited : SUBSET {"HTTPS_PROXY", "GIT_TERMINAL_PROMPT", "GIT_CONFIG_PARAMETERS"}]
    /\ MaxStderr \in Nat \ {0} /\ MaxLines \in Nat
    /\ Permanent \intersect Transient = {}

VARIABLES
    request,    \* the request
    pc,         \* where CheckoutRef is, or how it ended
    env,        \* the environment of the command, a sequence of variables
    minted,     \* whether a token was minted
    dir,        \* the temporary directory
    git,        \* "unstarted", "running", "ok", "failed", "killed"
    helpers,    \* whether a helper of git's is alive
    stderr,     \* the lines git and its helpers wrote, and whose they are
    performs,   \* how often the hook called the function it was handed
    performed,  \* what that function returned last
    cancelled   \* whether the caller's context is done

vars == <<request, pc, env, minted, dir, git, helpers, stderr, performs, performed, cancelled>>
process == <<git, helpers, stderr>>
hook == <<performs, performed>>

Ended == {"gone", "error", "tree", "closed"}

-----------------------------------------------------------------------------
(* The environment of the command.                                         *)

Variable(key, values) == [key |-> key, values |-> values]

\* What a process sees of a variable that is there twice: the last one.
Getenv(environ, key) ==
    UNION {environ[i].values : i \in {j \in DOMAIN environ :
        environ[j].key = key /\ \A k \in DOMAIN environ : environ[k].key = key => k <= j}}

AuthorizedHost(host) == host \in AuthHosts

\* Whether a token is asked for, and whether it is one.
Mints(r) == r.token # "none" /\ AuthorizedHost(r.host)

\* Slip: the parameters of the surrounding process are replaced.
ParamAlone(r) == {"credential"}
Param(r) ==
    {"credential"} \union {"inherited" : key \in r.inherited \intersect {"GIT_CONFIG_PARAMETERS"}}

AuthEnv(r) ==
    IF Mints(r) /\ r.token = "value"
    THEN <<Variable("GIT_CONFIG_PARAMETERS", Param(r))>> ELSE <<>>

Kept(r, key) == IF key \in r.inherited THEN <<Variable(key, {"inherited"})>> ELSE <<>>

\* Without the proxy, and never to prompt.
CloneEnv(r) ==
    Kept(r, "GIT_TERMINAL_PROMPT") \o Kept(r, "GIT_CONFIG_PARAMETERS")
        \o <<Variable("GIT_TERMINAL_PROMPT", {"0"})>> \o AuthEnv(r)

-----------------------------------------------------------------------------
(* How a failure is classified.                                            *)

\* Slip: the end of what git said is kept.
LastLines(lines) == IF Len(lines) <= MaxStderr THEN lines
                    ELSE SubSeq(lines, Len(lines) - MaxStderr + 1, Len(lines))
Sanitized(lines) == IF Len(lines) <= MaxStderr THEN lines ELSE SubSeq(lines, 1, MaxStderr)

CloneError(lines) ==
    IF \E i \in DOMAIN Sanitized(lines) : Sanitized(lines)[i].text \in Permanent
    THEN "gone" ELSE "error"

-----------------------------------------------------------------------------
(* CheckoutRef and clone.                                                  *)

Init ==
    /\ request \in Requests
    /\ pc = "idle" /\ env = <<>> /\ minted = FALSE /\ dir = "none"
    /\ git = "unstarted" /\ helpers = FALSE /\ stderr = <<>>
    /\ performs = 0 /\ performed = "none" /\ cancelled = FALSE

Call ==
    /\ pc = "idle" /\ pc' = "validate"
    /\ UNCHANGED <<request, env, minted, dir, process, hook, cancelled>>

Validate ==
    /\ pc = "validate"
    /\ pc' = IF request.url /\ request.ref THEN "mkdir" ELSE "error"
    /\ UNCHANGED <<request, env, minted, dir, process, hook, cancelled>>

MkdirTemp ==
    /\ pc = "mkdir"
    /\ \/ pc' = "env" /\ dir' = "empty"
       \/ pc' = "error" /\ dir' = dir
    /\ UNCHANGED <<request, env, minted, process, hook, cancelled>>

Environment ==
    /\ pc = "env"
    /\ pc' = "hook" /\ env' = CloneEnv(request) /\ minted' = Mints(request)
    /\ UNCHANGED <<request, dir, process, hook, cancelled>>

\* Removing the directory.  Slip: not when git was killed.
RemoveUnlessKilled == IF git = "killed" THEN dir ELSE "removed"
Cleanup == "removed"

\* The hook has returned: with an error, or with none.
Fails ==
    /\ pc' = CloneError(stderr) /\ dir' = Cleanup
    /\ UNCHANGED <<request, env, minted, process, hook, cancelled>>
Succeeds ==
    /\ pc' = "open"
    /\ UNCHANGED <<request, env, minted, dir, process, hook, cancelled>>

OpenRoot ==
    /\ pc = "open"
    /\ \/ pc' = "tree" /\ dir' = dir
       \/ pc' = "error" /\ dir' = Cleanup
    /\ UNCHANGED <<request, env, minted, process, hook, cancelled>>

Close ==
    /\ pc = "tree"
    /\ pc' = "closed" /\ dir' = Cleanup
    /\ UNCHANGED <<request, env, minted, process, hook, cancelled>>

-----------------------------------------------------------------------------
(* The hook.  "plain" is the default; "retries" performs again after an    *)
(* error; "raises" returns an error of its own after a success; "mute"     *)
(* returns none after an error; "absent" performs nothing; "impatient"     *)
(* returns as soon as the context is done.                                 *)

\* A command runs once: a context that is done or a git that is missing keep
\* it from starting, a second call from running.
Perform ==
    /\ pc = "hook" /\ request.hook # "absent"
    /\ \/ performs = 0
       \/ performs = 1 /\ request.hook = "retries" /\ performed = "error"
    /\ performs' = performs + 1
    /\ \/ /\ performs = 0 /\ ~cancelled
          /\ pc' = "perform" /\ git' = "running" /\ helpers' = TRUE
          /\ UNCHANGED <<performed, stderr>>
       \/ /\ pc' = pc /\ performed' = "error"
          /\ UNCHANGED process
    /\ UNCHANGED <<request, env, minted, dir, cancelled>>

\* What the hook makes of what it performed.
HookError ==
    /\ performs > 0
    /\ \/ request.hook \in {"plain", "impatient"} /\ performed = "error"
       \/ request.hook = "retries" /\ performed = "error" /\ performs = 2
       \/ request.hook = "raises"
HookNil ==
    \/ request.hook = "absent"
    \/ request.hook = "mute" /\ performs > 0
    \/ performs > 0 /\ performed = "nil" /\ request.hook # "raises"

HookReturns ==
    \/ pc = "hook" /\ HookError /\ Fails
    \/ pc = "hook" /\ HookNil /\ Succeeds
    \/ pc = "perform" /\ request.hook = "impatient" /\ cancelled /\ Fails

\* Run waits for git, and for everyone who can still write to its standard
\* error.
NobodyWrites == git \in {"ok", "failed", "killed"} /\ ~helpers
\* Slip: being killed is no error.
ExitedBadly == git = "failed"
RunFailed == git # "ok"
Wait ==
    /\ pc = "perform" /\ NobodyWrites
    /\ pc' = "hook" /\ performed' = IF RunFailed THEN "error" ELSE "nil"
    /\ UNCHANGED <<request, env, minted, dir, process, performs, cancelled>>

-----------------------------------------------------------------------------
(* git and the world.                                                      *)

\* A live process of git's writes into the directory, if it is there.
Working == git = "running" \/ helpers
Says(who, line) == stderr' = Append(stderr, [by |-> who, text |-> line])

RemoteSays ==
    /\ Working /\ Len(stderr) < MaxLines
    /\ \E line \in Banner : Says("remote", line)
    /\ UNCHANGED <<request, pc, env, minted, dir, git, helpers, hook, cancelled>>

Writes ==
    /\ Working /\ dir = "empty"
    /\ dir' = "partial"
    /\ UNCHANGED <<request, pc, env, minted, process, hook, cancelled>>

GitSucceeds ==
    /\ git = "running" /\ request.exists
    /\ git' = "ok"
    /\ dir' = IF dir = "removed" THEN dir ELSE "complete"
    /\ UNCHANGED <<request, pc, env, minted, helpers, stderr, hook, cancelled>>

\* git fails for now, or because there is no such ref, and says so.
GitFails ==
    /\ git = "running"
    /\ git' = "failed"
    /\ \E line \in Transient \union (IF request.exists THEN {} ELSE Permanent) :
           Says("git", line)
    /\ UNCHANGED <<request, pc, env, minted, dir, helpers, hook, cancelled>>

\* A context that is done kills git, and only git.  Slip: it does not.
NoKill == FALSE
Kill ==
    /\ git = "running" /\ cancelled
    /\ git' = "killed"
    /\ UNCHANGED <<request, pc, env, minted, dir, helpers, stderr, hook, cancelled>>

\* A helper may end once its git is gone.  One that waits for a silent remote
\* does not: nobody kills it.
HelperEnds ==
    /\ helpers /\ git # "running"
    /\ helpers' = FALSE
    /\ UNCHANGED <<request, pc, env, minted, dir, git, stderr, hook, cancelled>>

Cancel ==
    /\ ~cancelled /\ pc \notin Ended \union {"idle"}
    /\ cancelled' = TRUE
    /\ UNCHANGED <<request, pc, env, minted, dir, process, hook>>

Next ==
    \/ Call \/ Validate \/ MkdirTemp \/ Environment \/ Perform \/ HookReturns \/ Wait
    \/ OpenRoot \/ Close
    \/ RemoteSays \/ Writes \/ GitSucceeds \/ GitFails \/ Kill \/ HelperEnds \/ Cancel

Spec == Init /\ [][Next]_vars

\* The caller's goroutine and hook run on, a kill is delivered.  Nothing is
\* assumed of a git that runs, of its helpers, nor of the remote.
FairSpec ==
    /\ Spec
    /\ WF_vars(Validate \/ MkdirTemp \/ Environment \/ Perform \/ HookReturns \/ Wait \/ OpenRoot)
    /\ WF_vars(Kill)

-----------------------------------------------------------------------------
(* Properties.                                                             *)

TypeOK ==
    /\ request \in Requests
    /\ pc \in {"idle", "validate", "mkdir", "env", "hook", "perform", "open"} \union Ended
    /\ dir \in {"none", "empty", "partial", "complete", "removed"}
    /\ git \in {"unstarted", "running", "ok", "failed", "killed"}
    /\ performed \in {"none", "nil", "error"}
    /\ performs \in 0..2
    /\ {minted, helpers, cancelled} \subseteq BOOLEAN
    /\ stderr \in Seq([by : {"git", "remote"}, text : Banner \union Transient \union Permanent])

\* A hook that does what Runner asks: it calls the function, waits for it, and
\* says nothing went well that did not.
Obedient == request.hook \in {"plain", "retries", "raises"}

\* The tree a caller is given is a whole clone, and stays one until the caller
\* closes it, provided the hook is obedient.
TreeIsWhole == pc = "tree" /\ Obedient => git = "ok" /\ dir = "complete"

\* Nobody works in the directory once it has been removed: the wait for
\* helpers is what keeps a cancelled clone from writing into it again, unless
\* the hook itself does not wait.
NobodyInRemoved == request.hook # "impatient" /\ dir = "removed" => ~Working

\* The directory is the caller's, whole and undisturbed, or nobody's.
DirectoryIsKept == TreeIsWhole /\ NobodyInRemoved

\* Somebody says that the ref is missing, before more has been said than an
\* error carries.
SaidMissing(who) ==
    \E i \in 1..MaxStderr :
        i \in DOMAIN stderr /\ stderr[i].by \in who /\ stderr[i].text \in Permanent

\* A checkout is given up for good only when the remote has no such ref, or says
\* so itself in words that are kept, true or not; whatever else went wrong on
\* the way, a cancellation included, is no reason (cloneError).
GoneIsTrue == pc = "gone" => ~request.exists \/ SaidMissing({"remote"})

\* When git or the remote says in time that the ref is missing, and git does not
\* succeed all the same, the checkout is not retried, even if the hook performs
\* it again.
MissingIsGone ==
    SaidMissing({"git", "remote"}) /\ Obedient /\ git # "ok" => pc # "error"

\* A ref that is missing or that the remote calls missing, and nothing else, is
\* given up for good.
GoneIffMissing == GoneIsTrue /\ MissingIsGone

\* The command sees no proxy, may not prompt, keeps the configuration of the
\* surrounding process, and sees the credential exactly when there is one for
\* the host it goes to.
CommandSees ==
    git # "unstarted" =>
        /\ Getenv(env, "HTTPS_PROXY") = {}
        /\ Getenv(env, "GIT_TERMINAL_PROMPT") = {"0"}
        /\ Getenv(env, "GIT_CONFIG_PARAMETERS") =
              {v \in {"inherited", "credential"} :
                  IF v = "inherited" THEN "GIT_CONFIG_PARAMETERS" \in request.inherited
                  ELSE request.token = "value" /\ request.host \in AuthHosts}

\* Run still waits, for nobody but a helper that outlived its git.
HeldByHelper == pc = "perform" /\ git # "running" /\ helpers

\* A checkout ends once its git has, and once its caller has cancelled, though
\* git may never answer; only a helper that outlives git and never ends can hold
\* it for ever (clone, which sets no WaitDelay).
CancelledEnds ==
    [](Obedient /\ (cancelled \/ git \in {"ok", "failed"})
           => <>(pc \in Ended) \/ <>[]HeldByHelper)

\* What FetchContract.tla sees of a checkout: one call, whose file is the
\* directory.  That the call ends is not promised: nothing but the caller's
\* context watches a clone.
Result == [f \in {"clone"} |->
    IF pc = "tree" THEN "artifact" ELSE IF pc \in Ended \union {"idle"} THEN pc ELSE "running"]
Size == [f \in {"clone"} |-> 0]
Held == IF pc \in Ended /\ dir \notin {"none", "removed"} THEN {"clone"} ELSE {}

Contract == INSTANCE FetchContract WITH
    Fetches <- {"clone"}, Staged <- {"clone"}, Limit <- Size,
    result <- Result, size <- Size, held <- Held

\* Whatever fails, a checkout keeps the contract of a fetch: it ends once, a
\* directory is left only with a tree, and until that is closed.
ImplementsContract == Contract!ContractSafety
=============================================================================
