-------------------------------- MODULE EMaps --------------------------------
(***************************************************************************)
(* The Maps page of one session: the list of E-Maps, the map of the        *)
(* selected row, and the cache of the EMapService behind both.  The page   *)
(* and its service live for one login.                                     *)
(***************************************************************************)
EXTENDS Naturals, FiniteSets

CONSTANTS Maps,       \* E-Maps by id, in the order of the list
          MaxLoads,   \* bound: loads started
          MaxEdits    \* bound: changes somebody makes to the maps

MapAssumption == Maps \subseteq Nat \ {0} /\ MaxEdits \in Nat

None == 0

VARIABLES listed, unavailable,
          refreshable,      \* the Refresh button
          listing,          \* "no", "asked" or what the NAS answered
          rows, selected,   \* the list, its selected row
          last,             \* config.last_emap_id
          request,          \* _request
          loads,            \* load_map_with_image calls under way
          cache,            \* service._maps: versions by map, None if absent
          shown,            \* what the page shows: a message or a map
          nas, edits        \* the NAS: version of each map, 0 once deleted

page == <<listed, unavailable, refreshable, rows, selected, last, shown>>
vars == <<page, listing, request, loads, cache, nas, edits>>

Message == [map |-> None, ver |-> 0]
Versions == 0 .. MaxEdits + 1

Init ==
    /\ listed = FALSE /\ unavailable = FALSE /\ refreshable = TRUE
    /\ listing = "no" /\ rows = {} /\ selected = None /\ last = None
    /\ request = 0 /\ loads = {} /\ shown = Message
    /\ cache = [m \in Maps |-> 0]
    /\ nas = [m \in Maps |-> 1] /\ edits = 0

(* _load_list.                                                             *)
LoadList ==
    IF unavailable THEN UNCHANGED <<listed, refreshable, listing>>
    ELSE listed' = TRUE /\ refreshable' = FALSE /\ listing' = "asked"

Mapped ==
    /\ ~listed /\ LoadList
    /\ UNCHANGED <<unavailable, rows, selected, last, shown, request, loads,
                   cache, nas, edits>>

Refresh ==
    /\ refreshable /\ listing = "no"
    /\ cache' = [m \in Maps |-> 0] /\ LoadList
    /\ UNCHANGED <<unavailable, rows, selected, last, shown, request, loads,
                   nas, edits>>

(* _load_map: the call looks in the cache when the loop runs it.           *)
LoadMap(m) ==
    /\ request' = request + 1 /\ shown' = Message
    /\ loads' = loads \cup {[map |-> m, req |-> request', at |-> "called", ver |-> 0]}

SelectRow ==
    /\ request < MaxLoads
    /\ \E m \in rows \ {selected} :
          selected' = m /\ last' = m /\ LoadMap(m)
    /\ UNCHANGED <<listed, unavailable, refreshable, rows, listing, cache, nas,
                   edits>>

(* _on_list_loaded selects the remembered map, or the first.               *)
ListLoaded ==
    /\ listing = "answered" /\ listing' = "no"
    /\ rows' = {m \in Maps : nas[m] # 0} /\ refreshable' = TRUE
    /\ IF rows' = {}
       THEN selected' = None /\ shown' = Message /\ UNCHANGED <<last, request, loads>>
       ELSE /\ request < MaxLoads
            /\ \E m \in rows' :
                  /\ IF last \in rows' THEN m = last ELSE \A k \in rows' : m <= k
                  /\ selected' = m /\ last' = m /\ LoadMap(m)
    /\ UNCHANGED <<listed, unavailable, cache, nas, edits>>

LoadError ==
    /\ refreshable' = TRUE /\ shown' = Message
    /\ \/ unavailable' = TRUE /\ UNCHANGED listed
       \/ listed' = FALSE /\ UNCHANGED unavailable

ListFailed ==
    /\ listing = "asked" /\ listing' = "no" /\ LoadError
    /\ UNCHANGED <<rows, selected, last, request, loads, cache, nas, edits>>

(***************************************************************************)
(* EMapService on the loop, and the page's callbacks.                      *)
(***************************************************************************)
To(l, next) == loads' = (loads \ {l}) \cup {next}

(* load_map: the cached map at once, otherwise the NAS is asked.           *)
LookUp ==
    /\ \E l \in loads :
          /\ l.at = "called"
          /\ To(l, IF cache[l.map] # 0
                   THEN [l EXCEPT !.at = "done", !.ver = cache[l.map]]
                   ELSE [l EXCEPT !.at = "asking"])
    /\ UNCHANGED <<page, listing, request, cache, nas, edits>>

(* What it answers is the map as it was when the NAS read it.              *)
Read ==
    /\ \/ \E l \in loads :
             l.at = "asking" /\ To(l, [l EXCEPT !.at = "read", !.ver = nas[l.map]])
             /\ UNCHANGED listing
       \/ listing = "asked" /\ listing' = "answered" /\ UNCHANGED loads
    /\ UNCHANGED <<page, request, cache, nas, edits>>

(* A map the NAS still has is kept, whatever clear() did meanwhile.        *)
Cache ==
    /\ \E l \in loads :
          /\ l.at = "read" /\ To(l, [l EXCEPT !.at = "done"])
          /\ cache' = IF l.ver = 0 THEN cache ELSE [cache EXCEPT ![l.map] = l.ver]
    /\ UNCHANGED <<page, listing, request, nas, edits>>

(* A mutant: whatever map arrives is shown.                                *)
AnyRequest(l) == TRUE

Newest(l) == l.req = request

Loaded ==
    /\ \E l \in loads :
          /\ l.at = "done" /\ loads' = loads \ {l}
          /\ shown' = CASE ~Newest(l) -> shown
                        [] l.ver = 0 -> Message
                        [] OTHER -> [map |-> l.map, ver |-> l.ver]
    /\ UNCHANGED <<listed, unavailable, refreshable, rows, selected, last,
                   listing, request, cache, nas, edits>>

MapFailed ==
    /\ \E l \in loads :
          /\ l.at = "asking" /\ loads' = loads \ {l}
          /\ IF Newest(l) THEN LoadError
             ELSE UNCHANGED <<listed, unavailable, refreshable, shown>>
    /\ UNCHANGED <<rows, selected, last, listing, request, cache, nas, edits>>

Edit ==
    /\ edits < MaxEdits /\ edits' = edits + 1
    /\ \E m \in Maps : nas[m] # 0 /\
          \E v \in {0, nas[m] + 1} : nas' = [nas EXCEPT ![m] = v]
    /\ UNCHANGED <<page, listing, request, loads, cache>>

Next ==
    \/ Mapped \/ Refresh \/ SelectRow \/ ListLoaded \/ ListFailed
    \/ LookUp \/ Read \/ Cache \/ Loaded \/ MapFailed
    \/ Edit

Spec == Init /\ [][Next]_vars

TypeOK ==
    /\ {listed, unavailable, refreshable} \subseteq BOOLEAN
    /\ listing \in {"no", "asked", "answered"}
    /\ rows \subseteq Maps /\ {selected, last} \subseteq Maps \cup {None}
    /\ request \in 0 .. MaxLoads
    /\ loads \subseteq [map : Maps, req : 1 .. MaxLoads, ver : Versions,
                        at : {"called", "asking", "read", "done"}]
    /\ cache \in [Maps -> Versions] /\ nas \in [Maps -> Versions]
    /\ shown \in [map : Maps \cup {None}, ver : Versions]

(* The map on display is the one of the selected row, in whatever order    *)
(* the maps arrive (_load_map's request count).  With no maps left in the  *)
(* list one asked for before may still come up: nothing counts it out.     *)
MapIsSelected == rows = {} \/ shown.map \in {None, selected}

(* As the inductive invariant has it: the newest load is for that row.     *)
NewestIsSelected ==
    /\ MapIsSelected
    /\ \A l \in loads :
          l.req <= request /\ (Newest(l) => rows = {} \/ l.map = selected)
=============================================================================
