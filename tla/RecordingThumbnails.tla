------------------------- MODULE RecordingThumbnails -------------------------
(***************************************************************************)
(* The thumbnail cache of the recording pages, shared by every session of  *)
(* the program although recording ids belong to one NAS.  A fetch is       *)
(* called on the GTK thread, runs on the loop behind a semaphore, and its  *)
(* row may be gone when it is done.                                        *)
(***************************************************************************)
EXTENDS Naturals, FiniteSets

CONSTANTS Recs,       \* recording ids, the same on every NAS
          Places,     \* _thumbnail_semaphore
          Limit,      \* _MAX_THUMBNAIL_CACHE
          MaxLogins   \* bound: sessions, each with another NAS

PlaceAssumption == Places \in Nat \ {0} /\ Limit \in Nat \ {0}
LoginAssumption == MaxLogins \in Nat \ {0}

VARIABLES nas,        \* the session logged in to, 0 for none
          generation,
          cache,      \* _recording_thumbnail_cache; its order is left out
          fetches,    \* what is under way; alike ones are one
          logins

vars == <<nas, generation, cache, fetches, logins>>

Image == [rec : Recs, of : 1 .. MaxLogins]
Fetch == [rec : Recs, of : 1 .. MaxLogins, gen : 0 .. MaxLogins,
          at : {"called", "waiting", "asking"}]

Init ==
    /\ nas = 1 /\ generation = 0 /\ cache = {} /\ fetches = {}
    /\ logins = 1

Cached(r) == \E e \in cache : e.rec = r
Asking == {f \in fetches : f.at = "asking"}

(* fetch_recording_thumbnail: the generation is taken at the call.         *)
Call ==
    /\ nas # 0
    /\ \E r \in Recs :
          fetches' = fetches \cup
            {[rec |-> r, of |-> nas, gen |-> generation, at |-> "called"]}
    /\ UNCHANGED <<nas, generation, cache, logins>>

(* An image in the cache is all a fetch needs; it looks when it starts and *)
(* once more behind the semaphore, and then asks its own NAS.              *)
Moved(f, next) ==
    fetches' = (fetches \ {f}) \cup
        IF Cached(f.rec) THEN {} ELSE {[f EXCEPT !.at = next]}

Begin ==
    /\ \E f \in fetches : f.at = "called" /\ Moved(f, "waiting")
    /\ UNCHANGED <<nas, generation, cache, logins>>

Ask ==
    /\ Cardinality(Asking) < Places
    /\ \E f \in fetches : f.at = "waiting" /\ Moved(f, "asking")
    /\ UNCHANGED <<nas, generation, cache, logins>>

(* A mutant: an answer is kept whichever NAS it is from.                   *)
AlwaysKept(f) == TRUE

Kept(f) == f.gen = generation

(* _cache_put: past the limit another image goes.                          *)
Put(e) ==
    LET others == {x \in cache : x.rec # e.rec} IN
    IF Cardinality(others) < Limit THEN cache' = others \cup {e}
    ELSE \E x \in others : cache' = (others \ {x}) \cup {e}

(* The NAS has no image for the recording, or the call failed.             *)
NoImage ==
    /\ \E f \in Asking : fetches' = fetches \ {f}
    /\ UNCHANGED <<nas, generation, cache, logins>>

Answered ==
    /\ \E f \in Asking :
          /\ fetches' = fetches \ {f}
          /\ IF Kept(f) THEN Put([rec |-> f.rec, of |-> f.of])
                        ELSE UNCHANGED cache
    /\ UNCHANGED <<nas, generation, logins>>

(* The row is cleared; its fetch is cancelled wherever it is.              *)
Cancelled ==
    /\ \E f \in fetches : fetches' = fetches \ {f}
    /\ UNCHANGED <<nas, generation, cache, logins>>

(* clear_snapshot_cache, with the session; the fetches are not cancelled.  *)
Logout ==
    /\ nas # 0 /\ nas' = 0
    /\ generation' = generation + 1 /\ cache' = {}
    /\ UNCHANGED <<fetches, logins>>

Login ==
    /\ nas = 0 /\ logins < MaxLogins
    /\ logins' = logins + 1 /\ nas' = logins'
    /\ UNCHANGED <<generation, cache, fetches>>

Next ==
    \/ Call \/ Begin \/ Ask \/ NoImage \/ Answered \/ Cancelled
    \/ Logout \/ Login

Spec == Init /\ [][Next]_vars

TypeOK ==
    /\ nas \in 0 .. MaxLogins /\ generation \in 0 .. MaxLogins
    /\ cache \subseteq Image /\ fetches \subseteq Fetch
    /\ logins \in 1 .. MaxLogins

(* No image of one NAS is kept for a recording of another, although the    *)
(* fetches of the session before still end (clear_snapshot_cache,          *)
(* _fetch_recording_thumbnail).                                            *)
ImagesOfThisNas == \A e \in cache : e.of = nas

(* The inductive invariant behind it: a generation is one session's.       *)
GenerationIsNas ==
    /\ TypeOK
    /\ generation = IF nas = 0 THEN logins ELSE logins - 1
    /\ nas \in {0, logins}
    /\ \A f \in fetches : f.of = f.gen + 1 /\ f.of <= logins
    /\ ImagesOfThisNas
=============================================================================
