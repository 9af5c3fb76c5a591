------------------------------ MODULE Downloads ------------------------------
(***************************************************************************)
(* Saving a recording, a time lapse or a snapshot under a name the user    *)
(* picked.  A download writes a .part file beside that name and renames it *)
(* when it is complete; quitting ends the process at any point.  Files are *)
(* modelled as POSIX has them: a handle stays with the file it opened,     *)
(* whatever becomes of the name.                                           *)
(***************************************************************************)
EXTENDS Integers, Sequences, FiniteSets

CONSTANTS Loads,    \* bound: downloads started, each under the same name
          Chunks,   \* pieces of one body
          Streamed  \* the downloads that arrive in pieces (no snapshots)

LoadAssumption == Loads \subseteq Nat \ {0} /\ Streamed \subseteq Loads
ChunkAssumption == Chunks \in Nat \ {0, 1}

None == 0
Files == Loads           \* a file is known by the download that created it

VARIABLES stage,     \* per download: "new"; "mkdir" or "checking"; "head", "body";
                     \* "done" (written and closed), "broken" (in the except
                     \* clause); and the ends: "saved", "failed", "dead",
                     \* "unflushed" (a close raised), "kept" (no unlink)
          got,       \* per download: pieces taken from the NAS
          handle,    \* per download: the file it writes to
          part, out, \* which file the .part name and the name stand for
          data,      \* per file: who wrote its pieces
          body,      \* per download: what the NAS sends, "media" or "error"
          shared     \* history: two downloads were under way at once

names == <<part, out>>
vars == <<stage, got, handle, names, data, body, shared>>

Init ==
    /\ stage = [d \in Loads |-> "new"] /\ got = [d \in Loads |-> 0]
    /\ handle = [d \in Loads |-> None] /\ data = [f \in Files |-> <<>>]
    /\ part = None /\ out = None /\ shared = FALSE
    /\ body = [d \in Loads |-> "media"]

Ends == {"saved", "failed", "unflushed", "kept", "dead"}
Running == {d \in Loads : stage[d] \notin Ends \cup {"new"}}
To(d, next) == stage' = [stage EXCEPT ![d] = next]

(* Pieces j to k of a file become d's, whoever wrote them before.          *)
Put(old, d, j, k) ==
    [i \in 1 .. (IF k > Len(old) THEN k ELSE Len(old)) |->
        IF i \in j .. k THEN d ELSE IF i <= Len(old) THEN old[i] ELSE None]

Start ==
    /\ \E d \in Loads :
          /\ stage[d] = "new" /\ \A e \in Loads : stage[e] = "new" => d <= e
          /\ To(d, IF d \in Streamed THEN "mkdir" ELSE "checking")
          /\ \E b \in {"media", "error"} : body' = [body EXCEPT ![d] = b]
          /\ shared' = (shared \/ Running # {})
    /\ UNCHANGED <<got, handle, names, data>>

(* Opening for writing empties the file the name stands for.               *)
Filled(d, pieces) ==
    /\ part' = IF part = None THEN d ELSE part
    /\ handle' = [handle EXCEPT ![d] = part']
    /\ data' = [data EXCEPT ![part'] = pieces]

(* A mutant: the .part file is left where it is.                           *)
LeftThere(d) == part' = part

Unlinked(d) == part' = None

(* What the .part name stands for is removed; the system may refuse, and   *)
(* that is passed over (contextlib.suppress(OSError)).                     *)
Removed(d) ==
    \/ To(d, "failed") /\ Unlinked(d)
    \/ To(d, "kept") /\ UNCHANGED part

(* A mutant: the first pieces are not looked at.                           *)
NotChecked(d) == TRUE

Checked(d) == body[d] = "media"

(***************************************************************************)
(* stream_to_file.                                                         *)
(***************************************************************************)
Opened ==
    /\ \E d \in Loads :
          /\ stage[d] = "mkdir"
          /\ \/ Filled(d, <<>>) /\ To(d, "head")
             \/ To(d, "failed") /\ UNCHANGED <<part, handle, data>>
    /\ UNCHANGED <<got, out, body, shared>>

(* The head can be told: the n pieces held back are checked, then written. *)
Told(d, n) ==
    \/ /\ Checked(d) /\ To(d, "body")
       /\ data' = [data EXCEPT ![handle[d]] = Put(@, d, 1, n)]
    \/ ~Checked(d) /\ To(d, "broken") /\ UNCHANGED data

(* The next piece is held back, or is enough to tell the head, or is       *)
(* written.                                                                *)
Piece ==
    /\ \E d \in Loads :
          /\ stage[d] \in {"head", "body"} /\ got[d] < Chunks
          /\ got' = [got EXCEPT ![d] = @ + 1]
          /\ \/ stage[d] = "head" /\ UNCHANGED <<stage, data>>
             \/ stage[d] = "head" /\ Told(d, got'[d])
             \/ /\ stage[d] = "body" /\ UNCHANGED stage
                /\ data' = [data EXCEPT ![handle[d]] = Put(@, d, got'[d], got'[d])]
    /\ UNCHANGED <<handle, names, body, shared>>

(* The whole body was smaller than the head.                               *)
ShortBody ==
    /\ \E d \in Loads : stage[d] = "head" /\ got[d] = Chunks /\ Told(d, Chunks)
    /\ UNCHANGED <<got, handle, names, body, shared>>

(* The transfer breaks, or the disk is full: what the handle was given     *)
(* then may still be in its buffer.                                        *)
Aborted ==
    /\ \E d \in Loads :
          /\ stage[d] \in {"head", "body"} /\ To(d, "broken")
          /\ \/ UNCHANGED data
             \/ /\ Checked(d) /\ got[d] > 0
                /\ data' = [data EXCEPT ![handle[d]] = Put(@, d, 1, got[d])]
    /\ UNCHANGED <<got, handle, names, body, shared>>

(* The except clause. A stream's close comes first: it writes what is      *)
(* still buffered, and when it raises, nothing after it is done.           *)
CleanUp ==
    /\ \E d \in Loads : stage[d] = "broken" /\
          \/ /\ d \in Streamed /\ data[handle[d]] # <<>>
             /\ To(d, "unflushed") /\ UNCHANGED part
          \/ Removed(d)
    /\ UNCHANGED <<got, handle, out, data, body, shared>>

(* After the last piece the close is outside every try.                    *)
BodyEnds ==
    /\ \E d \in Loads :
          /\ stage[d] = "body" /\ got[d] = Chunks
          /\ To(d, "done") \/ To(d, "unflushed")
    /\ UNCHANGED <<got, handle, names, data, body, shared>>

(* write_download: checked, then written in one go, which may fail before  *)
(* or after the file is opened.                                            *)
Whole(d) == [i \in 1 .. Chunks |-> d]

WriteAll ==
    /\ \E d \in Loads : stage[d] = "checking" /\
          \/ To(d, "failed") /\ UNCHANGED <<part, handle, data>>
          \/ Checked(d) /\ To(d, "done") /\ Filled(d, Whole(d))
          \/ /\ Checked(d) /\ To(d, "broken")
             /\ Filled(d, <<>>) \/ UNCHANGED <<part, handle, data>>
    /\ UNCHANGED <<got, out, body, shared>>

(* os.replace: the name now stands for whatever the .part name stood for.  *)
Replaced ==
    /\ \E d \in Loads : stage[d] = "done" /\
          \/ part # None /\ out' = part /\ part' = None /\ To(d, "saved")
          \/ Removed(d) /\ UNCHANGED out
    /\ UNCHANGED <<got, handle, data, body, shared>>

(* exit_now: os._exit skips every cleanup.                                 *)
Quit ==
    /\ Running # {}
    /\ stage' = [d \in Loads |-> IF d \in Running THEN "dead" ELSE stage[d]]
    /\ UNCHANGED <<got, handle, names, data, body, shared>>

Next ==
    \/ Start \/ Opened \/ Piece \/ ShortBody \/ Aborted \/ CleanUp \/ BodyEnds
    \/ WriteAll \/ Replaced \/ Quit

Spec == Init /\ [][Next]_vars

TypeOK ==
    /\ stage \in [Loads -> Ends \cup {"new", "mkdir", "checking", "head", "body",
                                     "done", "broken"}]
    /\ got \in [Loads -> 0 .. Chunks]
    /\ handle \in [Loads -> Files \cup {None}]
    /\ {part, out} \subseteq Files \cup {None}
    /\ body \in [Loads -> {"media", "error"}] /\ shared \in BOOLEAN

(* Under the name the user picked there is nothing or the whole of one     *)
(* download, whatever failed and whenever the program was quit; two        *)
(* downloads to one name at once are the exception (_part_path).           *)
SavedIsWhole ==
    shared \/ out = None
        \/ \E d \in Loads : data[out] = Whole(d) /\ body[d] = "media"

(* The .part file, if there is one: somebody's under way or with one of    *)
(* these ends, or left by quitting.                                        *)
PartIs(ends) ==
    shared \/ part = None
        \/ \E d \in Loads :
              \/ stage[d] = "dead"
              \/ handle[d] = part /\ (d \in Running \/ stage[d] \in ends)

(* stream_to_file's docstring: a partial file is removed if the transfer   *)
(* or the write fails. A file that the system refused to remove is no      *)
(* fault of the program's, and quitting skips every cleanup. It is broken: *)
(* a close that raises, in the except clause or after the last piece,      *)
(* keeps the removal from being tried.                                     *)
FailuresCleanUp == PartIs({"kept"})

(* What holds of it: a .part file is that of a download under way, or it   *)
(* was left by quitting, by a close that raised or by a refused unlink; no *)
(* other failure leaves one (the check of the head, the transfer, a write, *)
(* the rename).                                                            *)
LeftoversExplained == PartIs({"kept", "unflushed"})

(***************************************************************************)
(* download_recording_range: the part of a recording from r0 to r1 asked   *)
(* for between s and e, as an offset and a length; times in milliseconds.  *)
(***************************************************************************)
Later(a, b) == IF a >= b THEN a ELSE b
Sooner(a, b) == IF a <= b THEN a ELSE b

Offset(s, r0) == Later(0, s - r0)
Length(s, e, r0, r1) ==
    Sooner(e - Later(s, r0), Later(0, r1 - r0) - Offset(s, r0))
Refused(s, e, r0, r1) ==
    \/ e - s <= 0
    \/ e - Later(s, r0) <= 0
    \/ Later(0, r1 - r0) - Offset(s, r0) <= 0
=============================================================================
