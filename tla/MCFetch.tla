------------------------------- MODULE MCFetch -------------------------------
(***************************************************************************)
(* Instances of Fetch.tla for TLC: concurrent calls that share a client,   *)
(* and transfers seen through to the last use of the staged file.          *)
(***************************************************************************)
EXTENDS Fetch, TLC

CONSTANTS f1, f2, f3, ours, theirs, h1, h2, inside, outside

\* f1 and f2 share the default client; f3 brings a client whose RoundTripper is
\* not an *http.Transport.
SharedClientOf == f1 :> ours @@ f2 :> ours @@ f3 :> theirs
SharedLimit == [f \in Fetches |-> 1]

\* One call stages a file, the other reads metadata into memory.
TransferClientOf == [f \in Fetches |-> ours]
TransferLimit == [f \in Fetches |-> 1]
=============================================================================
