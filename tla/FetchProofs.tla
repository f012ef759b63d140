----------------------------- MODULE FetchProofs -----------------------------
(***************************************************************************)
(* Proofs about Fetch.tla, for any number of calls, clients, hosts and     *)
(* addresses, any limits and any timeout.                                  *)
(***************************************************************************)
EXTENDS Fetch, TLAPS

\* What each stage of a call knows of the request it is making.
Staging ==
    \A f \in Fetches :
        /\ pc[f] # "idle" => url[f] \in Hosts
        /\ pc[f] \in {"idle", "validate", "load", "store"} => via[f] = 0
        /\ pc[f] = "do" => via[f] < MaxRedirects
        /\ pc[f] \in {"do", "headers"} => wrapper[f] # None
        /\ pc[f] = "temp" => f \in Staged

\* A call in hand of a wrapper has the one its client's entry of the memo
\* names, and the entry was made for that client.
Wrapping ==
    /\ \A f \in Fetches : wrapper[f] # None => wrapper[f] = memo[ClientOf[f]]
    /\ \A c \in Clients : memo[c] # None => ClientOf[memo[c]] = c

\* Nothing is copied before the copy, and no more than was sent.
Copying ==
    \A f \in Fetches :
        /\ pc[f] \in Stages \ ({"copy", "moved"} \cup Outcomes) => got[f] = 0
        /\ got[f] <= body[f]

\* The timer runs only during a copy, and what it has left and the silence so
\* far cover the timeout; until a read has reset it, so do what it has left, the
\* silence the read ended and the silence since.
Watching ==
    \A f \in Fetches : timer[f] # Off =>
        /\ pc[f] \in {"copy", "moved"}
        /\ pc[f] = "copy" => timer[f] + silent[f] >= Stall
        /\ pc[f] = "moved" => timer[f] + waited[f] + silent[f] >= Stall

\* The temporary file exists from the copy to the close, and for staged calls.
Filing ==
    \A f \in Fetches :
        f \in disk <=> f \in Staged /\ pc[f] \in {"copy", "moved", "artifact"}

Digesting ==
    \A f \in Fetches : digested[f] # -1 =>
        pc[f] \in {"artifact", "closed"} /\ digested[f] = got[f]

TInv == TypeOK /\ Staging
NetInv == Wrapping /\ PublicPeers
CopyInv == Copying /\ Watching /\ Filing /\ Digesting

IInv == TInv /\ NetInv /\ CopyInv

\* No limit is the largest int64.  Without this OnePast wraps around and the
\* largest limit admits nothing.
LimitsBelowMax == \A f \in Fetches : Limit[f] < MaxInt

-----------------------------------------------------------------------------

LEMMA InitIInv == Init => IInv
  BY FetchAssumption
  DEF Init, IInv, TInv, NetInv, CopyInv, TypeOK, Staging, Wrapping,
      PublicPeers, Copying, Watching, Filing, Digesting, Stages, Outcomes, Off

LEMMA WatchFromType ==
    ASSUME TypeOK, NEW f \in Fetches, WatchFrom(f)
    PROVE  /\ timer' \in [Fetches -> Off..Stall]
           /\ silent' \in [Fetches -> 0..Stall]
           /\ waited' \in [Fetches -> 0..Stall]
           /\ firing' \in [Fetches -> BOOLEAN]
           /\ cancelled' \in [Fetches -> BOOLEAN]
  BY FetchAssumption DEF TypeOK, WatchFrom, Off

\* What each action leaves of the stages and the types.
LEMMA NextTInv == TInv /\ [Next]_vars => TInv'
<1> SUFFICES ASSUME TInv, [Next]_vars PROVE TInv'
  OBVIOUS
<1> USE FetchAssumption
    DEF TInv, TypeOK, Staging, Stages, Outcomes, Off,
        vars, netVars, bodyVars, watchVars, fileVars
<1>1. ASSUME NEW f \in Fetches, Begin(f) PROVE TInv'
  BY <1>1 DEF Begin, Goto
<1>2. ASSUME NEW f \in Fetches, Validate(f) PROVE TInv'
  BY <1>2 DEF Validate, Goto
<1>3. ASSUME NEW f \in Fetches, LoadClient(f) PROVE TInv'
  BY <1>3 DEF LoadClient, Goto
<1>4. ASSUME NEW f \in Fetches, StoreClient(f) PROVE TInv'
  BY <1>4 DEF StoreClient, Goto, LoadOrStore
<1>5. ASSUME NEW f \in Fetches, Dial(f) PROVE TInv'
  BY <1>5 DEF Dial, Goto, Requested, Dialable, AllPublic
<1>6. ASSUME NEW f \in Fetches, Reuse(f) PROVE TInv'
  BY <1>6 DEF Reuse, Goto, Requested
<1>7. ASSUME NEW f \in Fetches, Redirected(f) PROVE TInv'
  BY <1>7 DEF Redirected, Goto, TooManyHops, ValidateURL
<1>8. ASSUME NEW f \in Fetches, Declined(f) PROVE TInv'
  BY <1>8 DEF Declined, Goto
<1>9. ASSUME NEW f \in Fetches, Accepted(f) PROVE TInv'
  <2>1. CASE f \in Staged
    BY <1>9, <2>1 DEF Accepted, Goto
  <2>2. CASE f \notin Staged
    BY <1>9, <2>2, WatchFromType DEF Accepted, Goto
  <2>. QED
    BY <2>1, <2>2
<1>10. ASSUME NEW f \in Fetches, HeaderTimeout(f) PROVE TInv'
  BY <1>10 DEF HeaderTimeout, Goto
<1>11. ASSUME NEW f \in Fetches, LoseConnection(f) PROVE TInv'
  BY <1>11 DEF LoseConnection, Goto
<1>12. ASSUME NEW f \in Fetches, CreateTemp(f) PROVE TInv'
  <2>1. CASE disk' = disk \cup {f} /\ Goto(f, "copy") /\ WatchFrom(f)
    BY <1>12, <2>1, WatchFromType DEF CreateTemp, Goto
  <2>2. CASE Goto(f, "error") /\ UNCHANGED <<disk, watchVars>>
    BY <1>12, <2>2 DEF CreateTemp, Goto
  <2>. QED
    BY <1>12, <2>1, <2>2 DEF CreateTemp
<1>13. ASSUME NEW f \in Fetches, Read(f) PROVE TInv'
  BY <1>13 DEF Read, Goto
<1>25. ASSUME NEW f \in Fetches, Rearm(f) PROVE TInv'
  BY <1>25 DEF Rearm, Rearmed, Goto
<1>14. ASSUME NEW f \in Fetches, EndOfBody(f) PROVE TInv'
  BY <1>14 DEF EndOfBody, TooLarge, Goto, CopyEnds, Cleaned
<1>15. ASSUME NEW f \in Fetches, CopyFails(f) PROVE TInv'
  BY <1>15 DEF CopyFails, Goto, CopyEnds, Cleaned
<1>16. ASSUME NEW f \in Fetches, Tick(f) PROVE TInv'
  BY <1>16 DEF Tick
<1>17. ASSUME NEW f \in Fetches, Expire(f) PROVE TInv'
  BY <1>17 DEF Expire
<1>18. ASSUME NEW f \in Fetches, Fire(f) PROVE TInv'
  BY <1>18 DEF Fire
<1>19. ASSUME NEW f \in Fetches, CallerCancels(f) PROVE TInv'
  BY <1>19 DEF CallerCancels
<1>20. ASSUME NEW f \in Fetches, Abort(f) PROVE TInv'
  BY <1>20 DEF Abort, Goto
<1>21. ASSUME NEW f \in Fetches, Digest(f) PROVE TInv'
  BY <1>21 DEF Digest, Usable, Rewound
<1>22. ASSUME NEW f \in Fetches, Expand(f) PROVE TInv'
  BY <1>22 DEF Expand, Usable, Rewound
<1>23. ASSUME NEW f \in Fetches, Close(f) PROVE TInv'
  BY <1>23 DEF Close, Goto, Usable
<1>24. CASE UNCHANGED vars
  BY <1>24
<1>. QED
  BY <1>1, <1>2, <1>3, <1>4, <1>5, <1>6, <1>7, <1>8, <1>9, <1>10, <1>11, <1>12, <1>13, <1>14, <1>15, <1>16, <1>17, <1>18, <1>19, <1>20, <1>21, <1>22, <1>23, <1>24, <1>25 DEF Next

\* Only three actions touch the memo, the wrappers or the connections.
LEMMA NextNetInv == TInv /\ NetInv /\ [Next]_vars => NetInv'
<1> SUFFICES ASSUME TInv, NetInv, [Next]_vars PROVE NetInv'
  OBVIOUS
<1> USE FetchAssumption
    DEF TInv, NetInv, TypeOK, Staging, Wrapping, PublicPeers
<1>1. ASSUME NEW f \in Fetches, LoadClient(f) PROVE NetInv'
  BY <1>1 DEF LoadClient
<1>2. ASSUME NEW f \in Fetches, StoreClient(f) PROVE NetInv'
  BY <1>2 DEF StoreClient, LoadOrStore
<1>3. ASSUME NEW f \in Fetches, Dial(f) PROVE NetInv'
  <2>1. CASE UNCHANGED conns
    BY <1>3, <2>1 DEF Dial
  <2>2. ASSUME NEW answer \in SUBSET Addrs,
               NEW a \in Dialable(ClientOf[f], answer),
               conns' = conns \cup {<<wrapper[f], url[f], a>>}
        PROVE  NetInv'
    <3>1. a \in Addrs /\ (ClientOf[f] \in Pinned => a \in Public)
      BY <2>2 DEF Dialable, AllPublic
    <3>2. wrapper[f] \in Fetches /\ url[f] \in Hosts
      BY <1>3 DEF Dial
    <3>3. ClientOf[wrapper[f]] = ClientOf[f]
      BY <3>2
    <3>. QED
      BY <1>3, <2>2, <3>1, <3>2, <3>3 DEF Dial
  <2>. QED
    BY <1>3, <2>1, <2>2 DEF Dial
<1>4. CASE UNCHANGED <<memo, wrapper, conns>>
  BY <1>4
<1>. QED
  BY <1>1, <1>2, <1>3, <1>4
  DEF Next, vars, netVars, Begin, Validate, Reuse, Redirected, Declined, Accepted, HeaderTimeout, LoseConnection, CreateTemp, Read, Rearm, EndOfBody, CopyFails, Tick, Expire, Fire, CallerCancels, Abort, Digest, Expand, Close

\* What each action leaves of the copy, its watchdog and its file.
LEMMA NextCopyInv == TInv /\ CopyInv /\ [Next]_vars => CopyInv'
<1> SUFFICES ASSUME TInv, CopyInv, [Next]_vars PROVE CopyInv'
  OBVIOUS
<1> USE FetchAssumption
    DEF TInv, TypeOK, Staging, Stages, Outcomes, Off, CopyInv, Copying,
        Watching, Filing, Digesting,
        vars, bodyVars, watchVars, fileVars
<1>1. ASSUME NEW f \in Fetches, Begin(f) PROVE CopyInv'
  BY <1>1 DEF Begin, Goto
<1>2. ASSUME NEW f \in Fetches, Validate(f) PROVE CopyInv'
  BY <1>2 DEF Validate, Goto
<1>3. ASSUME NEW f \in Fetches, LoadClient(f) PROVE CopyInv'
  BY <1>3 DEF LoadClient, Goto
<1>4. ASSUME NEW f \in Fetches, StoreClient(f) PROVE CopyInv'
  BY <1>4 DEF StoreClient, Goto, LoadOrStore
<1>5. ASSUME NEW f \in Fetches, Dial(f) PROVE CopyInv'
  BY <1>5 DEF Dial, Goto, Requested, Dialable, AllPublic
<1>6. ASSUME NEW f \in Fetches, Reuse(f) PROVE CopyInv'
  BY <1>6 DEF Reuse, Goto, Requested
<1>7. ASSUME NEW f \in Fetches, Redirected(f) PROVE CopyInv'
  BY <1>7 DEF Redirected, Goto, TooManyHops, ValidateURL
<1>8. ASSUME NEW f \in Fetches, Declined(f) PROVE CopyInv'
  BY <1>8 DEF Declined, Goto
<1>9. ASSUME NEW f \in Fetches, Accepted(f) PROVE CopyInv'
  BY <1>9 DEF Accepted, Goto, WatchFrom
<1>10. ASSUME NEW f \in Fetches, HeaderTimeout(f) PROVE CopyInv'
  BY <1>10 DEF HeaderTimeout, Goto
<1>11. ASSUME NEW f \in Fetches, LoseConnection(f) PROVE CopyInv'
  BY <1>11 DEF LoseConnection, Goto
<1>12. ASSUME NEW f \in Fetches, CreateTemp(f) PROVE CopyInv'
  BY <1>12 DEF CreateTemp, Goto, WatchFrom
<1>13. ASSUME NEW f \in Fetches, Read(f) PROVE CopyInv'
  BY <1>13 DEF Read, Goto
<1>25. ASSUME NEW f \in Fetches, Rearm(f) PROVE CopyInv'
  BY <1>25 DEF Rearm, Rearmed, Goto
<1>14. ASSUME NEW f \in Fetches, EndOfBody(f) PROVE CopyInv'
  BY <1>14 DEF EndOfBody, TooLarge, Goto, CopyEnds, Cleaned
<1>15. ASSUME NEW f \in Fetches, CopyFails(f) PROVE CopyInv'
  BY <1>15 DEF CopyFails, Goto, CopyEnds, Cleaned
<1>16. ASSUME NEW f \in Fetches, Tick(f) PROVE CopyInv'
  BY <1>16 DEF Tick
<1>17. ASSUME NEW f \in Fetches, Expire(f) PROVE CopyInv'
  BY <1>17 DEF Expire
<1>18. ASSUME NEW f \in Fetches, Fire(f) PROVE CopyInv'
  BY <1>18 DEF Fire
<1>19. ASSUME NEW f \in Fetches, CallerCancels(f) PROVE CopyInv'
  BY <1>19 DEF CallerCancels
<1>20. ASSUME NEW f \in Fetches, Abort(f) PROVE CopyInv'
  BY <1>20 DEF Abort, Goto
<1>21. ASSUME NEW f \in Fetches, Digest(f) PROVE CopyInv'
  BY <1>21 DEF Digest, Usable, Rewound
<1>22. ASSUME NEW f \in Fetches, Expand(f) PROVE CopyInv'
  BY <1>22 DEF Expand, Usable, Rewound
<1>23. ASSUME NEW f \in Fetches, Close(f) PROVE CopyInv'
  BY <1>23 DEF Close, Goto, Usable
<1>24. CASE UNCHANGED vars
  BY <1>24
<1>. QED
  BY <1>1, <1>2, <1>3, <1>4, <1>5, <1>6, <1>7, <1>8, <1>9, <1>10, <1>11, <1>12, <1>13, <1>14, <1>15, <1>16, <1>17, <1>18, <1>19, <1>20, <1>21, <1>22, <1>23, <1>24, <1>25 DEF Next

LEMMA NextIInv == IInv /\ [Next]_vars => IInv'
  BY NextTInv, NextNetInv, NextCopyInv DEF IInv, CopyInv

THEOREM Invariance == Spec => []IInv
  BY InitIInv, NextIInv, PTL DEF Spec

-----------------------------------------------------------------------------
(* The properties of Fetch.tla that the runs check on small instances      *)

\* Every variable keeps its type; no call makes more than MaxRedirects requests.
THEOREM TypeCorrect == Spec => []TypeOK
<1>1. IInv => TypeOK
  BY DEF IInv, TInv
<1>. QED
  BY <1>1, Invariance, PTL

\* Connections made through pinning go to public addresses (PublicPeers).
THEOREM PeersArePublic == Spec => []PublicPeers
<1>1. IInv => PublicPeers
  BY DEF IInv, NetInv
<1>. QED
  BY <1>1, Invariance, PTL

\* Calls that share a client share its wrapper (OneWrapper).
THEOREM WrapperIsShared == Spec => []OneWrapper
<1>1. IInv => OneWrapper
  BY DEF IInv, NetInv, Wrapping, OneWrapper
<1>. QED
  BY <1>1, Invariance, PTL

\* Temporary files are owned or gone (FileOwned).
THEOREM FilesAreOwned == Spec => []FileOwned
<1>1. IInv => FileOwned
  BY DEF IInv, CopyInv, Filing, FileOwned, Outcomes
<1>. QED
  BY <1>1, Invariance, PTL

\* A digest is of the whole file, wherever the offset was left (DigestWhole).
THEOREM DigestsAreWhole == Spec => []DigestWhole
<1>1. IInv => DigestWhole
  BY DEF IInv, CopyInv, Digesting, DigestWhole
<1>. QED
  BY <1>1, Invariance, PTL

\* The watchdog expires after a full timeout, counted from its last reset, in
\* which no byte moved but those of a read whose own reset is still to come
\* (ExpiresOnlyWhenSilent).
THEOREM WatchdogIsPatient == Spec => ExpiresOnlyWhenSilent
<1> DEFINE Patient == \A f \in Fetches : ~firing[f] /\ firing'[f] => FullySilent(f)
<1>1. ASSUME IInv, Next PROVE Patient
  <2>1. PICK g \in Fetches :
            Expire(g) \/ UNCHANGED firing
                     \/ firing' = [firing EXCEPT ![g] = FALSE]
    BY <1>1
    DEF Next, Begin, Validate, LoadClient, StoreClient, Dial, Reuse,
        Redirected, Declined, Accepted, HeaderTimeout, LoseConnection,
        CreateTemp, Read, Rearm, EndOfBody, CopyFails, CopyEnds, Tick, Fire,
        CallerCancels, Abort, Digest, Expand, Close, WatchFrom, watchVars
  <2>2. CASE Expire(g)
    <3>1. FullySilent(g)
      <4>1. timer[g] = 0 /\ silent[g] \in 0..Stall /\ waited[g] \in 0..Stall
        BY <1>1, <2>2 DEF Expire, IInv, TInv, TypeOK
      <4>2. \/ pc[g] = "copy" /\ silent[g] >= Stall
            \/ pc[g] = "moved" /\ waited[g] + silent[g] >= Stall
        BY <1>1, <4>1 DEF IInv, CopyInv, Watching, Off
      <4>. QED
        BY <4>1, <4>2, FetchAssumption DEF FullySilent
    <3>2. \A f \in Fetches \ {g} : firing'[f] = firing[f]
      BY <1>1, <2>2 DEF Expire, IInv, TInv, TypeOK
    <3>. QED
      BY <3>1, <3>2
  <2>3. CASE \/ UNCHANGED firing
             \/ firing' = [firing EXCEPT ![g] = FALSE]
    BY <1>1, <2>3 DEF IInv, TInv, TypeOK
  <2>. QED
    BY <2>1, <2>2, <2>3
<1>2. IInv /\ [Next]_vars => [Patient]_vars
  BY <1>1
<1>. QED
  BY <1>2, Invariance, PTL DEF Spec, ExpiresOnlyWhenSilent

\* An artifact is the whole body, provided limit+1 does not overflow
\* (WholeArtifact).
THEOREM ArtifactsAreWhole ==
    ASSUME LimitsBelowMax
    PROVE  Spec => []WholeArtifact
<1>1. Init => WholeArtifact
  BY DEF Init, WholeArtifact
<1>2. ASSUME IInv, WholeArtifact, [Next]_vars PROVE WholeArtifact'
  <2> USE FetchAssumption DEF IInv, TInv, TypeOK, CopyInv, Copying,
          WholeArtifact, bodyVars
  <2>1. ASSUME NEW f \in Fetches, EndOfBody(f) PROVE WholeArtifact'
    <3>1. OnePast(Limit[f]) = Limit[f] + 1
      BY LimitsBelowMax DEF LimitsBelowMax, OnePast
    <3>2. got[f] <= Limit[f] => got[f] = body[f]
      BY <1>2, <2>1, <3>1 DEF EndOfBody
    <3>3. UNCHANGED <<got, body>>
      BY <2>1 DEF EndOfBody
    <3>4. pc'[f] = "artifact" => got[f] <= Limit[f]
      BY <1>2, <2>1 DEF EndOfBody, TooLarge, CopyEnds, Goto
    <3>5. \A g \in Fetches : g # f => pc'[g] = pc[g]
      BY <1>2, <2>1 DEF EndOfBody, TooLarge, CopyEnds, Goto
    <3>. QED
      BY <1>2, <3>2, <3>3, <3>4, <3>5
  <2>2. ASSUME NEW f \in Fetches, Read(f) PROVE WholeArtifact'
    BY <1>2, <2>2 DEF Read, Goto
  <2>3. ASSUME NEW f \in Fetches, Accepted(f) PROVE WholeArtifact'
    BY <1>2, <2>3 DEF Accepted, Goto
  <2>4. ASSUME NEW f \in Fetches, NEW stage \in Stages \ {"artifact"},
               Goto(f, stage) \/ UNCHANGED pc, UNCHANGED bodyVars
        PROVE  WholeArtifact'
    BY <1>2, <2>4 DEF Goto
  <2>. QED
    BY <1>2, <2>1, <2>2, <2>3, <2>4
    DEF Next, vars, Begin, Validate, LoadClient, StoreClient, Dial, Reuse,
        Requested, Redirected, Declined, HeaderTimeout, LoseConnection,
        CreateTemp, Rearm, CopyFails, CopyEnds, Tick, Expire, Fire,
        CallerCancels, Abort, Digest, Expand, Close, Stages, Outcomes
<1>. QED
  BY <1>1, <1>2, Invariance, PTL DEF Spec

-----------------------------------------------------------------------------
(* Fetch implements the safety half of FetchContract                       *)

Running == Stages \ (Outcomes \cup {"idle"})

\* A step that concerns call f alone, as far as the contract can tell.
Only(f) ==
    \A g \in Fetches \ {f} :
        /\ pc'[g] = pc[g]
        /\ got'[g] = got[g]
        /\ g \in disk' <=> g \in disk

\* A step between two stages of a running call is hidden.
LEMMA HiddenStep ==
    ASSUME IInv, IInv', NEW f \in Fetches,
           pc[f] \in Running, pc'[f] \in Running, Only(f)
    PROVE  UNCHANGED Contract!contractVars
<1> USE FetchAssumption DEF IInv, TInv, TypeOK, Running, Only, Outcomes, Stages
<1>1. Result' = Result
  BY DEF Result
<1>2. Size' = Size
  BY DEF Size
<1>3. Held' = Held
  BY DEF Held
<1>. QED
  BY <1>1, <1>2, <1>3 DEF Contract!contractVars

\* A step of a running call to "gone" or "error" is the contract's Refuse.
LEMMA RefuseStep ==
    ASSUME IInv, IInv', NEW f \in Fetches,
           pc[f] \in Running, pc'[f] \in {"gone", "error"}, Only(f)
    PROVE  Contract!Refuse(f)
<1> USE FetchAssumption DEF IInv, TInv, TypeOK, Running, Only, Outcomes, Stages
<1>1. Result[f] = "running" /\ Result' = [Result EXCEPT ![f] = pc'[f]]
  BY DEF Result
<1>2. Size' = Size
  BY DEF Size
<1>3. Held' = Held
  BY DEF Held, CopyInv, Filing
<1>. QED
  BY <1>1, <1>2, <1>3 DEF Contract!Refuse

\* The end of a copy within its limit is the contract's Deliver.
LEMMA DeliverStep ==
    ASSUME IInv, IInv', NEW f \in Fetches,
           pc[f] = "copy", pc'[f] = "artifact", Only(f),
           got'[f] = got[f], got[f] <= Limit[f]
    PROVE  Contract!Deliver(f)
<1> USE FetchAssumption DEF IInv, TInv, TypeOK, Only, Outcomes, Stages
<1>1. Result[f] = "running" /\ Result' = [Result EXCEPT ![f] = "artifact"]
  BY DEF Result
<1>2. got[f] \in 0..Limit[f]
  OBVIOUS
<1>3. Size' = [Size EXCEPT ![f] = got[f]]
  BY DEF Size
<1>4. f \in disk' <=> f \in Staged
  BY DEF CopyInv, Filing
<1>5. Held' = Held \cup ({f} \cap Staged)
  BY <1>4 DEF Held
<1>. QED
  BY <1>1, <1>2, <1>3, <1>5 DEF Contract!Deliver

LEMMA ContractInitial == Init => Contract!ContractInit
  BY DEF Init, Contract!ContractInit, Outcomes, Result, Size, Held

LEMMA ContractStep ==
    IInv /\ IInv' /\ [Next]_vars
        => [Contract!ContractNext]_(Contract!contractVars)
<1> SUFFICES ASSUME IInv, IInv', [Next]_vars
             PROVE  \/ UNCHANGED Contract!contractVars
                    \/ Contract!ContractNext
  OBVIOUS
<1> USE DEF IInv, TInv, TypeOK, Goto, bodyVars, fileVars
<1>1. ASSUME NEW f \in Fetches, pc[f] \in Running, Only(f),
             pc'[f] \in Running \cup {"gone", "error"}
      PROVE  UNCHANGED Contract!contractVars \/ Contract!ContractNext
  BY <1>1, HiddenStep, RefuseStep DEF Contract!ContractNext
<1>2. ASSUME NEW f \in Fetches, Begin(f)
      PROVE  Contract!ContractNext
  <2>1. Result[f] = "idle" /\ Result' = [Result EXCEPT ![f] = "running"]
    BY <1>2 DEF Begin, Outcomes, Result
  <2>2. Size' = Size
    BY <1>2 DEF Begin, Size
  <2>3. Held' = Held
    BY <1>2 DEF Begin, Held, Outcomes
  <2>4. Contract!Call(f)
    BY <2>1, <2>2, <2>3 DEF Contract!Call
  <2>. QED
    BY <2>4 DEF Contract!ContractNext
<1>3. ASSUME NEW f \in Fetches, EndOfBody(f)
      PROVE  UNCHANGED Contract!contractVars \/ Contract!ContractNext
  <2>1. pc[f] = "copy" /\ Only(f) /\ got' = got
    BY <1>3 DEF EndOfBody, TooLarge, CopyEnds, Only, Cleaned
  <2>2. CASE got[f] > Limit[f]
    BY <1>1, <1>3, <2>1, <2>2
    DEF EndOfBody, TooLarge, CopyEnds, Running, Stages, Outcomes
  <2>3. CASE ~(got[f] > Limit[f])
    <3>1. got[f] <= Limit[f]
      BY <2>3, FetchAssumption
    <3>2. pc'[f] = "artifact"
      BY <1>3, <2>3 DEF EndOfBody, TooLarge, CopyEnds
    <3>3. Contract!Deliver(f)
      BY <2>1, <3>1, <3>2, DeliverStep
    <3>. QED
      BY <3>3 DEF Contract!ContractNext
  <2>. QED
    BY <2>2, <2>3
<1>4. ASSUME NEW f \in Fetches, Close(f)
      PROVE  Contract!ContractNext
  <2>1. Result[f] = "artifact" /\ Result' = [Result EXCEPT ![f] = "closed"]
    BY <1>4 DEF Close, Usable, Outcomes, Result
  <2>2. Size' = Size
    BY <1>4 DEF Close, Usable, Size
  <2>3. f \in Held /\ Held' = Held \ {f}
    BY <1>4 DEF Close, Usable, CopyInv, Filing, Held, Outcomes
  <2>4. Contract!Release(f)
    BY <2>1, <2>2, <2>3 DEF Contract!Release
  <2>. QED
    BY <2>4 DEF Contract!ContractNext
<1>5. CASE UNCHANGED <<pc, got, disk>>
  BY <1>5 DEF Contract!contractVars, Result, Size, Held
<1>6. ASSUME NEW f \in Fetches, Validate(f)
      PROVE  UNCHANGED Contract!contractVars \/ Contract!ContractNext
  BY <1>1, <1>6 DEF Validate, Only, Running, Stages, Outcomes
<1>7. ASSUME NEW f \in Fetches, LoadClient(f)
      PROVE  UNCHANGED Contract!contractVars \/ Contract!ContractNext
  BY <1>1, <1>7 DEF LoadClient, Only, Running, Stages, Outcomes
<1>8. ASSUME NEW f \in Fetches, StoreClient(f)
      PROVE  UNCHANGED Contract!contractVars \/ Contract!ContractNext
  BY <1>1, <1>8 DEF StoreClient, Only, Running, Stages, Outcomes
<1>9. ASSUME NEW f \in Fetches, Dial(f)
      PROVE  UNCHANGED Contract!contractVars \/ Contract!ContractNext
  BY <1>1, <1>9 DEF Dial, Requested, Only, Running, Stages, Outcomes
<1>10. ASSUME NEW f \in Fetches, Reuse(f)
      PROVE  UNCHANGED Contract!contractVars \/ Contract!ContractNext
  BY <1>1, <1>10 DEF Reuse, Requested, Only, Running, Stages, Outcomes
<1>11. ASSUME NEW f \in Fetches, Redirected(f)
      PROVE  UNCHANGED Contract!contractVars \/ Contract!ContractNext
  BY <1>1, <1>11 DEF Redirected, Only, Running, Stages, Outcomes
<1>12. ASSUME NEW f \in Fetches, Declined(f)
      PROVE  UNCHANGED Contract!contractVars \/ Contract!ContractNext
  BY <1>1, <1>12 DEF Declined, Only, Running, Stages, Outcomes
<1>13. ASSUME NEW f \in Fetches, Accepted(f)
      PROVE  UNCHANGED Contract!contractVars \/ Contract!ContractNext
  BY <1>1, <1>13 DEF Accepted, Only, Running, Stages, Outcomes
<1>14. ASSUME NEW f \in Fetches, HeaderTimeout(f)
      PROVE  UNCHANGED Contract!contractVars \/ Contract!ContractNext
  BY <1>1, <1>14 DEF HeaderTimeout, Only, Running, Stages, Outcomes
<1>15. ASSUME NEW f \in Fetches, LoseConnection(f)
      PROVE  UNCHANGED Contract!contractVars \/ Contract!ContractNext
  BY <1>1, <1>15 DEF LoseConnection, Only, Running, Stages, Outcomes
<1>16. ASSUME NEW f \in Fetches, CreateTemp(f)
      PROVE  UNCHANGED Contract!contractVars \/ Contract!ContractNext
  BY <1>1, <1>16 DEF CreateTemp, Only, Running, Stages, Outcomes
<1>17. ASSUME NEW f \in Fetches, Read(f)
      PROVE  UNCHANGED Contract!contractVars \/ Contract!ContractNext
  BY <1>1, <1>17 DEF Read, Only, Running, Stages, Outcomes
<1>20. ASSUME NEW f \in Fetches, Rearm(f)
      PROVE  UNCHANGED Contract!contractVars \/ Contract!ContractNext
  BY <1>1, <1>20 DEF Rearm, Only, Running, Stages, Outcomes
<1>18. ASSUME NEW f \in Fetches, CopyFails(f)
      PROVE  UNCHANGED Contract!contractVars \/ Contract!ContractNext
  BY <1>1, <1>18 DEF CopyFails, CopyEnds, Cleaned, Only, Running, Stages, Outcomes
<1>19. ASSUME NEW f \in Fetches, Abort(f)
      PROVE  UNCHANGED Contract!contractVars \/ Contract!ContractNext
  BY <1>1, <1>19 DEF Abort, Only, Running, Stages, Outcomes
<1>. QED
  BY <1>2, <1>3, <1>4, <1>5, <1>6, <1>7, <1>8, <1>9, <1>10, <1>11, <1>12, <1>13, <1>14, <1>15, <1>16, <1>17, <1>18, <1>19, <1>20
  DEF Next, vars, Tick, Expire, Fire, CallerCancels, Digest, Expand

\* Every behaviour of concurrent calls keeps the contract's safety half: a call
\* ends once, with a size within its limit, and holds a file only while its
\* artifact is open (FetchContract).
THEOREM ImplementsContractSafety == Spec => Contract!ContractSafety
  BY ContractInitial, ContractStep, Invariance, PTL
  DEF Spec, Contract!ContractSafety

\* What a call hands out is whole, hashed whole, and on disk only until it is
\* closed, for any number of calls (fetch, fetchBytes, fetched).
THEOREM ArtifactsKeepIntegrity ==
    ASSUME LimitsBelowMax
    PROVE  Spec => []ArtifactIntegrity
<1>1. WholeArtifact /\ FileOwned /\ DigestWhole => ArtifactIntegrity
  BY DEF ArtifactIntegrity
<1>. QED
  BY <1>1, ArtifactsAreWhole, FilesAreOwned, DigestsAreWhole, LimitsBelowMax, PTL
=============================================================================
