-------------------------------- MODULE Fetch --------------------------------
(***************************************************************************)
(* upstream/fetch.go: calls of fetch and fetchBytes running concurrently.  *)
(*                                                                         *)
(* A call validates its URL, takes the memoized validating client, dials   *)
(* an address it checked, waits for headers, follows validated redirects,  *)
(* and copies the body past a watchdog that cancels a transfer which stops *)
(* moving.  DNS may answer differently every time it is asked, the server  *)
(* may fall silent at any point, and the caller may cancel at any point.   *)
(***************************************************************************)
EXTENDS Integers, FiniteSets

CONSTANTS
    Fetches,        \* calls, each in a goroutine of its own
    Staged,         \* those of fetch (a temporary file); the rest fetchBytes
    Clients,        \* *http.Client values callers pass, or defaultClient
    ClientOf,       \* ClientOf[f]: the client call f is made with
    Pinned,         \* clients whose RoundTripper is nil or an *http.Transport
    HeaderTimed,    \* clients whose transport has a ResponseHeaderTimeout
    Hosts,          \* hosts that URLs name
    Refused,        \* hosts whose URL ValidateURL refuses by its text alone
    Addrs, Public,  \* addresses DNS answers with; those isPublicIP accepts
    Limit,          \* Limit[f]: the size bound in force for call f
    MaxInt,         \* the largest int64
    MaxRedirects,   \* maxRedirects
    MaxBody,        \* bound of the model: the longest body a server sends
    Stall,          \* DefaultTimeout, in ticks
    None

ASSUME FetchAssumption ==
    /\ Staged \subseteq Fetches
    /\ ClientOf \in [Fetches -> Clients]
    /\ Refused \subseteq Hosts
    /\ Public \subseteq Addrs
    /\ MaxInt \in Nat /\ MaxBody \in Nat
    /\ MaxRedirects \in Nat \ {0} /\ Stall \in Nat \ {0}
    /\ Limit \in [Fetches -> 0..MaxInt]
    /\ None \notin Fetches \cup Hosts

VARIABLES
    pc,         \* where each call is; the last five values are outcomes
    url,        \* the host of the URL being requested
    via,        \* requests made so far, len(via) in CheckRedirect
    memo,       \* wrappedClients: client -> the call whose wrapper is stored
    wrapper,    \* the wrapper call f sends with, named by the call that made it
    conns,      \* established connections <<wrapper, host, address>>
    body,       \* bytes the server's 200 response carries
    got,        \* bytes copied
    timer,      \* ticks left on the stall timer, or Off
    silent,     \* ticks since the copy began or last moved bytes, up to Stall
    waited,     \* the silence that a read ended whose Reset is still to come
    firing,     \* the timer expired, its callback has not run cancel yet
    cancelled,  \* the request context is cancelled
    disk,       \* calls whose temporary file exists
    pos,        \* offset of the staged file
    digested    \* bytes the last Digest hashed, or -1

netVars == <<url, via, memo, wrapper, conns>>
bodyVars == <<body, got>>
watchVars == <<timer, silent, waited, firing, cancelled>>
fileVars == <<disk, pos, digested>>
vars == <<pc, netVars, bodyVars, watchVars, fileVars>>

Off == -1
Outcomes == {"artifact", "gone", "error", "closed"}
Stages == {"idle", "validate", "load", "store", "do", "headers", "temp",
           "copy", "moved"} \cup Outcomes

TypeOK ==
    /\ pc \in [Fetches -> Stages]
    /\ url \in [Fetches -> Hosts \cup {None}]
    /\ via \in [Fetches -> 0..MaxRedirects]
    /\ memo \in [Clients -> Fetches \cup {None}]
    /\ wrapper \in [Fetches -> Fetches \cup {None}]
    /\ conns \subseteq Fetches \X Hosts \X Addrs
    /\ body \in [Fetches -> 0..MaxBody]
    /\ got \in [Fetches -> 0..MaxBody]
    /\ timer \in [Fetches -> Off..Stall]
    /\ silent \in [Fetches -> 0..Stall]
    /\ waited \in [Fetches -> 0..Stall]
    /\ firing \in [Fetches -> BOOLEAN]
    /\ cancelled \in [Fetches -> BOOLEAN]
    /\ disk \subseteq Staged
    /\ pos \in [Fetches -> 0..MaxBody]
    /\ digested \in [Fetches -> -1..MaxBody]

Init ==
    /\ pc = [f \in Fetches |-> "idle"]
    /\ url = [f \in Fetches |-> None]
    /\ via = [f \in Fetches |-> 0]
    /\ memo = [c \in Clients |-> None]
    /\ wrapper = [f \in Fetches |-> None]
    /\ conns = {}
    /\ body = [f \in Fetches |-> 0]
    /\ got = [f \in Fetches |-> 0]
    /\ timer = [f \in Fetches |-> Off]
    /\ silent = [f \in Fetches |-> 0]
    /\ waited = [f \in Fetches |-> 0]
    /\ firing = [f \in Fetches |-> FALSE]
    /\ cancelled = [f \in Fetches |-> FALSE]
    /\ disk = {}
    /\ pos = [f \in Fetches |-> 0]
    /\ digested = [f \in Fetches |-> -1]

-----------------------------------------------------------------------------
(* get: the URL check, the client and its transport                        *)

Goto(f, stage) == pc' = [pc EXCEPT ![f] = stage]

\* The loop that ValidateURL and the dial guard share: an answer is accepted
\* when it is not empty and every address in it is public.
AllPublic(answer) == answer # {} /\ answer \subseteq Public

\* ValidateURL of a URL naming host h, when the resolver gives this answer
\* (a failed lookup is the empty answer: it is refused alike).
ValidateURL(h, answer) == h \notin Refused /\ AllPublic(answer)

Begin(f) ==
    /\ pc[f] = "idle"
    /\ \E h \in Hosts : url' = [url EXCEPT ![f] = h]
    /\ Goto(f, "validate")
    /\ UNCHANGED <<via, memo, wrapper, conns, bodyVars, watchVars, fileVars>>

Validate(f) ==
    /\ pc[f] = "validate"
    /\ \E answer \in SUBSET Addrs :
           Goto(f, IF ValidateURL(url[f], answer) THEN "load" ELSE "error")
    /\ UNCHANGED <<netVars, bodyVars, watchVars, fileVars>>

\* httpClient, its first half: wrappedClients.Load.
LoadClient(f) ==
    LET known == memo[ClientOf[f]] IN
    /\ pc[f] = "load"
    /\ wrapper' = [wrapper EXCEPT ![f] = known]
    /\ Goto(f, IF known = None THEN "store" ELSE "do")
    /\ UNCHANGED <<url, via, memo, conns, bodyVars, watchVars, fileVars>>

StoreOverwrites(known, f) == f

\* What LoadOrStore leaves under a key that holds `known` when f offers its own.
LoadOrStore(known, f) == IF known = None THEN f ELSE known

\* httpClient, its second half: another call may have stored since the Load.
StoreClient(f) ==
    LET c == ClientOf[f]
        stored == LoadOrStore(memo[c], f) IN
    /\ pc[f] = "store"
    /\ memo' = [memo EXCEPT ![c] = stored]
    /\ wrapper' = [wrapper EXCEPT ![f] = stored]
    /\ Goto(f, "do")
    /\ UNCHANGED <<url, via, conns, bodyVars, watchVars, fileVars>>

DialableUnchecked(c, answer) == IF c \notin Pinned THEN Addrs ELSE answer

\* The addresses pinning's DialContext may connect to, given an answer.  A
\* RoundTripper that is not an *http.Transport is not pinned and dials as it
\* likes.
Dialable(c, answer) ==
    IF c \notin Pinned THEN Addrs
    ELSE IF AllPublic(answer) THEN answer ELSE {}

Requested(f) ==
    /\ via' = [via EXCEPT ![f] = @ + 1]
    /\ Goto(f, "headers")

\* The transport has no idle connection it can use: it resolves the host again
\* and dials.  An answer that is refused, or a dial that fails, fails the call.
Dial(f) ==
    /\ pc[f] = "do"
    /\ \E answer \in SUBSET Addrs :
           \/ \E a \in Dialable(ClientOf[f], answer) :
                  /\ conns' = conns \cup {<<wrapper[f], url[f], a>>}
                  /\ Requested(f)
           \/ /\ Goto(f, "error")
              /\ UNCHANGED <<via, conns>>
    /\ UNCHANGED <<url, memo, wrapper, bodyVars, watchVars, fileVars>>

\* The transport sends on a connection of its own pool: no lookup is made.
Reuse(f) ==
    /\ pc[f] = "do"
    /\ \E a \in Addrs : <<wrapper[f], url[f], a>> \in conns
    /\ Requested(f)
    /\ UNCHANGED <<url, memo, wrapper, conns, bodyVars, watchVars, fileVars>>

\* CheckRedirect refuses the hop once this many requests were made.
TooManyHops(n) == n >= MaxRedirects

\* The server answers with a redirect to a URL that names host h.
Redirected(f) ==
    /\ pc[f] = "headers"
    /\ \E h \in Hosts, answer \in SUBSET Addrs :
           IF ~TooManyHops(via[f]) /\ ValidateURL(h, answer)
           THEN url' = [url EXCEPT ![f] = h] /\ Goto(f, "do")
           ELSE Goto(f, "error") /\ UNCHANGED url
    /\ UNCHANGED <<via, memo, wrapper, conns, bodyVars, watchVars, fileVars>>

\* 404 and 410 mean gone; every other status but 200 is an error to retry.
Declined(f) ==
    /\ pc[f] = "headers"
    /\ \E outcome \in {"gone", "error"} : Goto(f, outcome)
    /\ UNCHANGED <<netVars, bodyVars, watchVars, fileVars>>

Unwatched(f) == UNCHANGED watchVars

\* guardStall: the watchdog starts with the copy.
WatchFrom(f) ==
    /\ timer' = [timer EXCEPT ![f] = Stall]
    /\ silent' = [silent EXCEPT ![f] = 0]
    /\ UNCHANGED <<waited, firing, cancelled>>

\* A 200 response with n bytes of body: fetch goes on to make its temporary
\* file, fetchBytes copies into memory at once.
Accepted(f) ==
    /\ pc[f] = "headers"
    /\ \E n \in 0..MaxBody : body' = [body EXCEPT ![f] = n]
    /\ IF f \in Staged
       THEN Goto(f, "temp") /\ UNCHANGED watchVars
       ELSE Goto(f, "copy") /\ WatchFrom(f)
    /\ UNCHANGED <<netVars, got, fileVars>>

\* No headers within the transport's ResponseHeaderTimeout.
HeaderTimeout(f) ==
    /\ pc[f] = "headers"
    /\ ClientOf[f] \in HeaderTimed
    /\ Goto(f, "error")
    /\ UNCHANGED <<netVars, bodyVars, watchVars, fileVars>>

\* The connection breaks before the headers arrive.
LoseConnection(f) ==
    /\ pc[f] = "headers"
    /\ Goto(f, "error")
    /\ UNCHANGED <<netVars, bodyVars, watchVars, fileVars>>

-----------------------------------------------------------------------------
(* The body: temporary file, bounded copy, watchdog                        *)

CreateTemp(f) ==
    /\ pc[f] = "temp"
    /\ \/ /\ disk' = disk \cup {f}
          /\ Goto(f, "copy")
          /\ WatchFrom(f)
       \/ /\ Goto(f, "error")
          /\ UNCHANGED <<disk, watchVars>>
    /\ UNCHANGED <<netVars, bodyVars, pos, digested>>

\* limit+1 in int64, the bound given to io.LimitReader: one byte past the
\* limit, so that a body at the limit is told from one over it.
OnePast(limit) == IF limit = MaxInt THEN -MaxInt - 1 ELSE limit + 1

NotRearmed(left) == left

\* onRead: Reset gives the timer its full time, also one that has expired.
Rearmed(left) == Stall

\* progressReader.Read, its first half: the read below it moved bytes.
Read(f) ==
    /\ pc[f] = "copy"
    /\ \E n \in 1..MaxBody :
           /\ got[f] + n <= body[f]
           /\ got[f] + n <= OnePast(Limit[f])
           /\ got' = [got EXCEPT ![f] = @ + n]
    /\ waited' = [waited EXCEPT ![f] = silent[f]]
    /\ silent' = [silent EXCEPT ![f] = 0]
    /\ Goto(f, "moved")
    /\ UNCHANGED <<netVars, body, timer, firing, cancelled, fileVars>>

\* progressReader.Read, its second half: onRead.  The timer ran on meanwhile.
Rearm(f) ==
    /\ pc[f] = "moved"
    /\ timer' = [timer EXCEPT ![f] = Rearmed(@)]
    /\ waited' = [waited EXCEPT ![f] = 0]
    /\ Goto(f, "copy")
    /\ UNCHANGED <<netVars, bodyVars, silent, firing, cancelled, fileVars>>

\* What fail leaves on disk: the file of a copy that failed is removed.
Cleaned(files, f) == files \ {f}

\* The copy ends; the deferred stop stops the timer.
CopyEnds(f, outcome) ==
    /\ Goto(f, outcome)
    /\ timer' = [timer EXCEPT ![f] = Off]
    /\ disk' = IF outcome = "error" THEN Cleaned(disk, f) ELSE disk
    /\ UNCHANGED <<silent, waited, firing, cancelled, digested>>

NeverTooLarge(f) == FALSE

TooLarge(f) == got[f] > Limit[f]

\* The reader reports the end: of the body, or of what LimitReader lets pass.
EndOfBody(f) ==
    /\ pc[f] = "copy"
    /\ got[f] = body[f] \/ got[f] >= OnePast(Limit[f])
    /\ CopyEnds(f, IF TooLarge(f) THEN "error" ELSE "artifact")
    /\ pos' = [pos EXCEPT ![f] = IF f \in Staged THEN got[f] ELSE 0]
    /\ UNCHANGED <<netVars, bodyVars>>

\* A read or a write fails: the context is cancelled, the connection broke or
\* the disk is full.
CopyFails(f) ==
    /\ pc[f] = "copy"
    /\ CopyEnds(f, "error")
    /\ UNCHANGED <<netVars, bodyVars, pos>>

Tick(f) ==
    /\ pc[f] \in {"copy", "moved"}
    /\ timer[f] > 0
    /\ timer' = [timer EXCEPT ![f] = @ - 1]
    /\ silent' = [silent EXCEPT ![f] = IF @ < Stall THEN @ + 1 ELSE @]
    /\ UNCHANGED <<pc, netVars, bodyVars, waited, firing, cancelled, fileVars>>

\* The timer expires: time.AfterFunc starts a goroutine for the callback.
\* Neither Reset nor Stop can call it back.
Expire(f) ==
    /\ timer[f] = 0
    /\ timer' = [timer EXCEPT ![f] = Off]
    /\ firing' = [firing EXCEPT ![f] = TRUE]
    /\ UNCHANGED <<pc, netVars, bodyVars, silent, waited, cancelled, fileVars>>

\* The callback: cancel.
Fire(f) ==
    /\ firing[f]
    /\ firing' = [firing EXCEPT ![f] = FALSE]
    /\ cancelled' = [cancelled EXCEPT ![f] = TRUE]
    /\ UNCHANGED <<pc, netVars, bodyVars, timer, silent, waited, fileVars>>

\* The caller cancels the context it passed in.
CallerCancels(f) ==
    /\ pc[f] \notin Outcomes /\ ~cancelled[f]
    /\ cancelled' = [cancelled EXCEPT ![f] = TRUE]
    /\ UNCHANGED <<pc, netVars, bodyVars, timer, silent, waited, firing, fileVars>>

\* A lookup, a dial or a wait for headers sees the cancelled context.
Abort(f) ==
    /\ cancelled[f]
    /\ pc[f] \in {"validate", "do", "headers"}
    /\ Goto(f, "error")
    /\ UNCHANGED <<netVars, bodyVars, watchVars, fileVars>>

-----------------------------------------------------------------------------
(* The staged artifact: every use of it shares one file offset             *)

Usable(f) == pc[f] = "artifact" /\ f \in Staged

NotRewound(offset) == offset

\* Reader seeks to the start, wherever the last use left the offset.
Rewound(offset) == 0

Digest(f) ==
    /\ Usable(f)
    /\ digested' = [digested EXCEPT ![f] = got[f] - Rewound(pos[f])]
    /\ pos' = [pos EXCEPT ![f] = got[f]]
    /\ UNCHANGED <<pc, netVars, bodyVars, watchVars, disk>>

\* A tar reader is given the Reader and stops somewhere.
Expand(f) ==
    /\ Usable(f)
    /\ \E n \in Rewound(pos[f])..got[f] : pos' = [pos EXCEPT ![f] = n]
    /\ UNCHANGED <<pc, netVars, bodyVars, watchVars, disk, digested>>

Close(f) ==
    /\ Usable(f)
    /\ disk' = disk \ {f}
    /\ Goto(f, "closed")
    /\ UNCHANGED <<netVars, bodyVars, watchVars, pos, digested>>

-----------------------------------------------------------------------------

Next ==
    \E f \in Fetches :
        \/ Begin(f) \/ Validate(f) \/ LoadClient(f) \/ StoreClient(f)
        \/ Dial(f) \/ Reuse(f) \/ Redirected(f) \/ Declined(f)
        \/ Accepted(f) \/ HeaderTimeout(f) \/ LoseConnection(f)
        \/ CreateTemp(f) \/ Read(f) \/ Rearm(f)
        \/ EndOfBody(f) \/ CopyFails(f)
        \/ Tick(f) \/ Expire(f) \/ Fire(f)
        \/ CallerCancels(f) \/ Abort(f)
        \/ Digest(f) \/ Expand(f) \/ Close(f)

\* What this process and its resolver see to.  Nothing is assumed of the
\* server (it may never answer, never send another byte) or of the caller (it
\* may never cancel, never close).
Fairness ==
    \A f \in Fetches :
        /\ WF_vars(Validate(f) \/ LoadClient(f) \/ StoreClient(f))
        /\ WF_vars(Dial(f))
        /\ WF_vars(CreateTemp(f) \/ Rearm(f))
        /\ WF_vars(Abort(f))
        /\ WF_vars(HeaderTimeout(f))
        /\ WF_vars(Tick(f) \/ Expire(f))
        /\ WF_vars(Fire(f))
        /\ WF_vars(cancelled[f] /\ CopyFails(f))

Spec == Init /\ [][Next]_vars
FairSpec == Spec /\ Fairness

-----------------------------------------------------------------------------
(* Properties                                                              *)

\* Every connection a pinned client holds goes to a public address, whatever
\* DNS answered between the check of the URL and the dial, on every redirect
\* hop and on every reuse of a pooled connection (pinning).
PublicPeers ==
    \A f \in Fetches : \A h \in Hosts, a \in Addrs :
        ClientOf[f] \in Pinned /\ <<f, h, a>> \in conns => a \in Public

\* Calls made with one client send through one wrapper, hence one connection
\* pool, also when their first uses of the client race (httpClient).
OneWrapper ==
    \A f, g \in Fetches :
        /\ wrapper[f] # None
        /\ wrapper[g] # None
        /\ ClientOf[f] = ClientOf[g]
        => wrapper[f] = wrapper[g]

\* An artifact is the whole body the server sent and within the limit: a
\* longer body is refused, never cut (fetch, fetchBytes).
WholeArtifact ==
    \A f \in Fetches :
        pc[f] = "artifact" => got[f] = body[f] /\ got[f] <= Limit[f]

\* A call that fails at any stage leaves no file; the file of an artifact is
\* there until its caller closes it (fetch, fail, fetched.Close).
FileOwned ==
    \A f \in Fetches : pc[f] \in Outcomes =>
        (f \in disk <=> pc[f] = "artifact" /\ f \in Staged)

\* The last full timeout brought nothing, or nothing but the read that has yet
\* to reset the timer.
FullySilent(f) ==
    \/ silent[f] = Stall
    \/ pc[f] = "moved" /\ waited[f] + silent[f] >= Stall

\* The watchdog expires only after a full timeout in which no byte moved,
\* however many bytes moved before; the one exception is a read that moved bytes
\* at the very end of it and has not come to its Reset (guardStall,
\* progressReader.Read).
ExpiresOnlyWhenSilent ==
    [][\A f \in Fetches : ~firing[f] /\ firing'[f] => FullySilent(f)]_vars

\* A digest covers every byte of the artifact, whichever uses of the shared
\* file offset came before it (fetched.Reader, fetched.Digest).
DigestWhole ==
    \A f \in Fetches : digested[f] # -1 => digested[f] = got[f]

\* What a caller is handed is whole, is digested as a whole and is the only file
\* a call leaves, until it is closed (fetch, fetched).
ArtifactIntegrity == WholeArtifact /\ FileOwned /\ DigestWhole

\* A server that falls silent, before the headers or in the body, does not hold
\* a call for ever (DefaultTimeout: headerTimeout, guardStall).
EveryCallEnds ==
    \A f \in Fetches : pc[f] = "validate" ~> pc[f] \in Outcomes

\* What FetchContract.tla sees of the calls: their stages are hidden, and so is
\* a file while it is being written.
Result ==
    [f \in Fetches |->
        IF pc[f] \in Outcomes \cup {"idle"} THEN pc[f] ELSE "running"]

Size == [f \in Fetches |-> IF pc[f] \in {"artifact", "closed"} THEN got[f] ELSE 0]

Held == {f \in disk : pc[f] \in Outcomes}

Contract == INSTANCE FetchContract WITH
    result <- Result, size <- Size, held <- Held

\* Concurrent calls keep the contract of fetch and fetchBytes, and under fairness
\* every call that was started ends in one of its outcomes.
ImplementsContract == Contract!ContractSpec
=============================================================================
