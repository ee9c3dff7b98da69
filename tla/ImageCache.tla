------------------------------ MODULE ImageCache ------------------------------
(***************************************************************************)
(* The local cache of base images (internal/imagecache): concurrent calls  *)
(* of Cache.Get, one per reconcile worker, whose downloads are coalesced   *)
(* by singleflight and renamed into a content-addressed directory.         *)
(*                                                                         *)
(* Content is its digest. A flight is open for a request while a worker    *)
(* leads it, that is, is between Join and the end of fetch.                *)
(***************************************************************************)
EXTENDS Faults

CONSTANTS Workers,      \* reconcile workers of the machine controller
          Sources,      \* locations an image can be fetched from
          Digests,      \* contents, named by their sha256
          None          \* no digest

ASSUME CacheAssumption == None \notin Digests /\ MaxFaults \in Nat

VARIABLES
    req,        \* what each worker asks for: spec.baseImage.source
    serving,    \* what each source serves at the moment
    file,       \* the cache directory: the content under each digest's name
    body,       \* the response a leader is reading
    get,        \* where each worker is in Get
    entry       \* the digest Get returned, None after an error

cacheVars == <<req, serving, file, body, get, entry, faults>>

MaybeDigest == Digests \cup {None}

Requests == [src : Sources, want : MaybeDigest]

Leading == {"open", "copy", "commit"}

GetSteps == {"out", "stat", "join", "wait", "returned"} \cup Leading

CacheTypeOK ==
    /\ req \in [Workers -> Requests]
    /\ serving \in [Sources -> Digests]
    /\ file \in [Digests -> MaybeDigest]
    /\ body \in [Workers -> MaybeDigest]
    /\ get \in [Workers -> GetSteps]
    /\ entry \in [Workers -> MaybeDigest]
    /\ faults \in 0..MaxFaults

CacheInit ==
    /\ req \in [Workers -> Requests]
    /\ serving \in [Sources -> Digests]
    /\ file = [d \in Digests |-> None]
    /\ body = [w \in Workers |-> None]
    /\ get = [w \in Workers |-> "out"]
    /\ entry = [w \in Workers |-> None]
    /\ faults = 0

(* The key of singleflight is the source and the expected digest.          *)
InFlight(k) == \E v \in Workers : req[v] = k /\ get[v] \in Leading
-----------------------------------------------------------------------------
(* The fast path: a file with the expected digest's name is the image.     *)
Stat(w) ==
    /\ get[w] = "stat"
    /\ LET hit == req[w].want # None /\ file[req[w].want] # None
       IN  /\ get' = [get EXCEPT ![w] = IF hit THEN "returned" ELSE "join"]
           /\ entry' = [entry EXCEPT ![w] = IF hit THEN req[w].want ELSE None]
    /\ UNCHANGED <<req, serving, file, body, faults>>

(* singleflight.Do: wait for the flight of the same key, or lead one.      *)
Join(w) ==
    /\ get[w] = "join"
    /\ get' = [get EXCEPT ![w] = IF InFlight(req[w]) THEN "wait" ELSE "open"]
    /\ UNCHANGED <<req, serving, file, body, entry, faults>>

(* Mutant: only the leader learns that its fetch is over.                  *)
LandLeader(w, d) ==
    /\ get' = [get EXCEPT ![w] = "returned"]
    /\ entry' = [entry EXCEPT ![w] = d]
    /\ body' = [body EXCEPT ![w] = None]
    /\ UNCHANGED <<req, serving>>

(* The flight ends: the leader and everyone waiting for it get the same    *)
(* result.                                                                 *)
Land(w, d) ==
    LET done == {w} \cup {v \in Workers : req[v] = req[w] /\ get[v] = "wait"}
    IN  /\ get' = [v \in Workers |-> IF v \in done THEN "returned" ELSE get[v]]
        /\ entry' = [v \in Workers |-> IF v \in done THEN d ELSE entry[v]]
        /\ body' = [body EXCEPT ![w] = None]
        /\ UNCHANGED <<req, serving>>

(* Resolver.Open: the source answers with what it serves now.              *)
Open(w) ==
    /\ get[w] = "open"
    /\ \/ /\ body' = [body EXCEPT ![w] = serving[req[w].src]]
          /\ get' = [get EXCEPT ![w] = "copy"]
          /\ UNCHANGED <<req, serving, file, entry, faults>>
       \/ Fault /\ Land(w, None) /\ UNCHANGED file

(* The body is decompressed, hashed and written to a temporary file.       *)
Copy(w) ==
    /\ get[w] = "copy"
    /\ \/ /\ get' = [get EXCEPT ![w] = "commit"]
          /\ UNCHANGED <<req, serving, file, body, entry, faults>>
       \/ Fault /\ Land(w, None) /\ UNCHANGED file

(* Mutant: the file is named after the expected digest, unverified.        *)
CommitUnverified(w) ==
    /\ get[w] = "commit"
    /\ LET d == IF req[w].want = None THEN body[w] ELSE req[w].want
       IN  file' = [file EXCEPT ![d] = body[w]] /\ Land(w, d)
    /\ UNCHANGED faults

(* The digest is checked against the expected one, then the temporary file *)
(* is renamed to its digest.                                               *)
Commit(w) ==
    /\ get[w] = "commit"
    /\ \/ /\ req[w].want \in {None, body[w]}
          /\ file' = [file EXCEPT ![body[w]] = body[w]]
          /\ Land(w, body[w])
          /\ UNCHANGED faults
       \/ /\ req[w].want \notin {None, body[w]}
          /\ Land(w, None)
          /\ UNCHANGED <<file, faults>>
       \/ Fault /\ Land(w, None) /\ UNCHANGED file

GetStep(w) == Stat(w) \/ Join(w) \/ Open(w) \/ Copy(w) \/ Commit(w)
=============================================================================
