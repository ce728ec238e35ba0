------------------------ MODULE OrderedResponseCache ------------------------
(***************************************************************************)
(* The response cache of one Ray Client session (class                     *)
(* OrderedResponseCache).  Every response of the data stream stays in it   *)
(* until the client acknowledges it, so that a request sent again after a  *)
(* reconnection is answered and not executed again.                        *)
(*                                                                         *)
(* An entry is "pending" between check_cache and update_cache (the         *)
(* placeholder None), "done" once it holds a response, and "error" when    *)
(* invalidate replaced the placeholder by an exception.  Entries keep the  *)
(* order in which they were inserted.                                      *)
(***************************************************************************)
EXTENDS RequestIds, Sequences, SequencesExt

VARIABLES
    cache,            \* entries [id, val], oldest first
    last_received     \* the highest id the client acknowledged

cacheVars == <<cache, last_received>>

Covers(ack, id) == IdIsNewer(ack, id) \/ ack = id

CachedIds == {cache[i].id : i \in DOMAIN cache}

Cached(id) ==
    IF id \in CachedIds THEN cache[CHOOSE i \in DOMAIN cache : cache[i].id = id].val ELSE "absent"

CacheInit(acked) ==
    /\ cache = <<>>
    /\ last_received = acked

\* A mutant: a request in progress counts as unknown.
CheckCache_PendingIsAbsent(id) ==
    IF Covers(last_received, id) THEN "gone"
    ELSE IF Cached(id) = "pending" THEN "absent" ELSE Cached(id)

\* The outcome of check_cache: "gone" is the error of a request the client
\* acknowledged; for an absent one the placeholder is inserted.
CheckCache(id) == IF Covers(last_received, id) THEN "gone" ELSE Cached(id)

InsertPlaceholder(id) ==
    /\ cache' = Append(cache, [id |-> id, val |-> "pending"])
    /\ UNCHANGED last_received

UpdateCache(id) ==
    /\ id \in CachedIds
    /\ cache' = [i \in DOMAIN cache |->
                    IF cache[i].id = id THEN [cache[i] EXCEPT !.val = "done"] ELSE cache[i]]
    /\ UNCHANGED last_received

Invalidate ==
    /\ cache' = [i \in DOMAIN cache |->
                    IF cache[i].val = "pending" THEN [cache[i] EXCEPT !.val = "error"]
                                                ELSE cache[i]]
    /\ UNCHANGED last_received

\* A mutant: an acknowledgement empties the cache.
CleanupCache_ClearsAll(ack) ==
    /\ last_received' = IF IdIsNewer(ack, last_received) THEN ack ELSE last_received
    /\ cache' = <<>>

\* Drops the entries up to the acknowledged one; the scan stops at the first
\* entry that is newer.
CleanupCache(ack) ==
    LET kept == {i \in DOMAIN cache : \E j \in 1..i : ~Covers(ack, cache[j].id)}
    IN  /\ last_received' = IF IdIsNewer(ack, last_received) THEN ack ELSE last_received
        /\ cache' = SubSeq(cache, Len(cache) - Cardinality(kept) + 1, Len(cache))
=============================================================================
