--------------------------- MODULE PipeFdsProofs ---------------------------
(* Proofs about PipeFds: for any bridges, slots, descriptor numbers and    *)
(* writers, a number kept anywhere names the pipe end it is kept for, so a *)
(* write reaches its own pipe and mpv reads its own slot's.                *)
EXTENDS PipeFds, TLAPS

(* The names of the places are pairwise distinct, and each names an end.   *)
LEMMA EndOfType == \A p \in Places : EndOf(p) \in Ends
  BY DEF Places, EndOf, Ends, Fields, Own, Ffmpegs, Dups, GtkLocals, LoopLocals

(* The fields and the dups a writer uses are among the places.             *)
LEMMA FieldsArePlaces ==
  \A w \in Writers : /\ FieldOf[w] \in Fields /\ FieldOf[w] # "read_fd" /\ DupOf[w] \in Dups
                     /\ FieldOf[w] \in Places /\ DupOf[w] \in Places
                     /\ EndOf(FieldOf[w]) = EndOf(DupOf[w])
  BY WritersAssumption DEF FieldOf, DupOf, Places, EndOf, Fields, Own, Ffmpegs, Dups, GtkLocals, LoopLocals

(* What every kernel primitive and every move between places must keep.    *)
TableType == /\ fdt \in [Fds -> (Bridges \X Ends) \cup {None}]
             /\ held \in [Bridges -> [Places -> Fds \cup {NoFd}]]
Table == TableType /\ OwnsWhatItHolds /\ OneHolder

(* A number nobody else has is free, so the kernel never hands out one     *)
(* that is kept somewhere.                                                 *)
LEMMA FreeIsUnheld ==
  ASSUME Table
  PROVE  \A f \in Free, b \in Bridges, p \in Places : held[b][p] # f
<1> SUFFICES ASSUME NEW f \in Free, NEW b \in Bridges, NEW p \in Places, held[b][p] = f
             PROVE  FALSE
  OBVIOUS
<1>1. fdt[f] = None /\ f # NoFd
  BY NoFdAssumption DEF Free
<1>2. fdt[f] = <<b, EndOf(p)>> /\ <<b, EndOf(p)>> \in Bridges \X Ends
  BY <1>1, EndOfType DEF Table, OwnsWhatItHolds, Holds
<1> QED BY <1>1, <1>2, NoneAssumption

(* os.pipe() keeps the table.                                              *)
LEMMA OpenPipeKeepsTable ==
  ASSUME Table, NEW b \in Bridges, NEW r \in Places, NEW w \in Places, r # w,
         OpenPipe(b, r, w)
  PROVE  Table'
<1>1. PICK f, g \in Fds :
        /\ f \in Free /\ g \in Free /\ g # f
        /\ fdt' = [fdt EXCEPT ![f] = <<b, EndOf(r)>>, ![g] = <<b, EndOf(w)>>]
        /\ held' = [held EXCEPT ![b][r] = f, ![b][w] = g]
  BY DEF OpenPipe, IsLowest
<1>2. TableType'
  BY <1>1, EndOfType DEF Table, TableType
<1>3. OwnsWhatItHolds'
  BY <1>1, FreeIsUnheld, NoFdAssumption DEF Table, TableType, OwnsWhatItHolds, Holds
<1>4. OneHolder'
  BY <1>1, FreeIsUnheld, NoFdAssumption DEF Table, TableType, OneHolder, Holds
<1> QED BY <1>2, <1>3, <1>4 DEF Table

(* os.close() keeps the table: nobody else held what it closes.            *)
LEMMA CloseAllKeepsTable ==
  ASSUME Table, NEW b \in Bridges, NEW P \in SUBSET Places, CloseAll(b, P)
  PROVE  Table'
<1>1. TableType'
  BY NoFdAssumption DEF CloseAll, Table, TableType
<1>2. OwnsWhatItHolds'
  BY NoFdAssumption DEF CloseAll, Table, OwnsWhatItHolds, TableType, OneHolder, Holds
<1>3. OneHolder'
  BY NoFdAssumption DEF CloseAll, Table, TableType, OneHolder, Holds
<1> QED BY <1>1, <1>2, <1>3 DEF Table

(* The os.close() calls of a swap move no number: the swap alone keeps the *)
(* table, since a field and its local stand for the same end.              *)
LEMMA SwapOutKeepsTable ==
  ASSUME Table, NEW b \in Bridges, NEW v, NEW a,
         <<v, a>> \in {<<"gtk_v", "gtk_a">>, <<"loop_v", "loop_a">>, <<None, "loop_a">>},
         SwapOut(b, v, a)
  PROVE  Table'
<1> DEFINE from(p) == CASE p = v -> "video_fd" [] p = a -> "audio_fd" [] OTHER -> p
<1>1. a \in Places /\ (v = None \/ v \in Places) /\ a # v /\ a \notin Fields /\ v \notin Fields
  BY NoneAssumption DEF Places, Fields, GtkLocals, LoopLocals
<1>2. \A p \in Places : from(p) \in Places /\ EndOf(from(p)) = EndOf(p)
  BY <1>1, NoneAssumption DEF Places, EndOf, Fields, Own, Ffmpegs, Dups, GtkLocals, LoopLocals
<1>3. \A p \in Places : held'[b][p] # NoFd => held'[b][p] = held[b][from(p)]
  BY <1>1 DEF SwapOut, Table, TableType
<1>4. \A p, q \in Places : held'[b][p] # NoFd /\ held'[b][q] # NoFd /\ from(p) = from(q) => p = q
  <2> SUFFICES ASSUME NEW p \in Places, NEW q \in Places, p # q, from(p) = from(q),
                      held'[b][p] # NoFd, held'[b][q] # NoFd
               PROVE  FALSE
    OBVIOUS
  <2>1. p \in {v, a} \/ q \in {v, a}
    OBVIOUS
  <2>2. held'[b]["audio_fd"] = NoFd /\ (v # None => held'[b]["video_fd"] = NoFd)
    BY <1>1 DEF SwapOut, Table, TableType, Fields, Places
  <2> QED BY <1>1, <2>1, <2>2, NoneAssumption
<1>5. fdt' = fdt /\ \A c \in Bridges : c # b => held'[c] = held[c]
  BY DEF SwapOut, Table, TableType
<1>6. TableType'
  <2>1. {"video_fd", "audio_fd"} \subseteq Places
    BY DEF Places, Fields
  <2>2. \A p \in Places : held'[b][p] \in Fds \cup {NoFd}
    BY <2>1 DEF SwapOut, Table, TableType
  <2> QED BY <1>5, <2>2 DEF SwapOut, Table, TableType
<1> HIDE DEF from
<1>7. OwnsWhatItHolds'
  BY <1>2, <1>3, <1>5 DEF Table, OwnsWhatItHolds, Holds
<1>8. OneHolder'
  BY <1>2, <1>3, <1>4, <1>5 DEF Table, OneHolder, Holds
<1> QED BY <1>6, <1>7, <1>8 DEF Table

(* So does publishing: the locals' numbers become the fields', and ffmpeg's *)
(* ends are closed.                                                        *)
LEMMA PublishKeepsTable ==
  ASSUME Table, NEW b \in Bridges, NEW C \in SUBSET Ffmpegs, Publish(b, C)
  PROVE  Table'
<1> DEFINE from(p) == CASE p = "video_fd" -> "new_video" [] p = "audio_fd" -> "new_audio"
                        [] p = "read_fd" -> "new_read" [] OTHER -> p
<1>2. \A p \in Places : p \in C \/ (from(p) \in Places \ C /\ EndOf(from(p)) = EndOf(p))
  BY DEF Places, EndOf, Fields, Own, Ffmpegs, Dups, GtkLocals, LoopLocals
<1>3. \A p \in Places : held'[b][p] # NoFd => held'[b][p] = held[b][from(p)] /\ p \notin C
  BY DEF Publish, Table, TableType, Ffmpegs
<1>4. \A p, q \in Places : held'[b][p] # NoFd /\ held'[b][q] # NoFd /\ from(p) = from(q) => p = q
  BY DEF Publish, Table, TableType, Own
<1>5. \A c \in Bridges : c # b => held'[c] = held[c]
  BY DEF Publish, Table, TableType
<1>6. TableType'
  BY NoFdAssumption DEF Publish, Table, TableType, Places, Own
<1> HIDE DEF from
<1>9. \A f \in Fds : fdt'[f] = fdt[f] \/ \E p \in C : held[b][p] = f
  BY DEF Publish
<1>7. OwnsWhatItHolds'
  <2> SUFFICES ASSUME NEW c \in Bridges, NEW p \in Places, held'[c][p] # NoFd
               PROVE  fdt'[held'[c][p]] = <<c, EndOf(p)>>
    BY DEF OwnsWhatItHolds, Holds
  <2> DEFINE q == IF c = b THEN from(p) ELSE p
  <2>1. q \in Places /\ EndOf(q) = EndOf(p) /\ held'[c][p] = held[c][q] /\ (c = b => q \notin C)
    BY <1>2, <1>3, <1>5
  <2>2. fdt[held[c][q]] = <<c, EndOf(q)>>
    BY <2>1 DEF Table, OwnsWhatItHolds, Holds
  <2>3. held[c][q] \in Fds /\ ~\E r \in C : held[b][r] = held[c][q]
    <3>1. held[c][q] \in Fds
      BY <2>1 DEF Table, TableType
    <3>2. C \subseteq Places
      BY DEF Places
    <3> QED BY <2>1, <3>1, <3>2 DEF Table, OneHolder, Holds
  <2> QED BY <2>1, <2>2, <2>3, <1>9
<1>8. OneHolder'
  BY <1>2, <1>3, <1>4, <1>5 DEF Table, OneHolder, Holds
<1> QED BY <1>6, <1>7, <1>8 DEF Table

(* os.dup() of a number kept for the same end.                             *)
LEMMA WriteDupKeepsTable ==
  ASSUME Table, LockedReads, NEW b \in Bridges, NEW w \in Writers, WriteDup(b, w)
  PROVE  Table'
<1>1. PICK f \in Fds : /\ f \in Free
                       /\ fdt' = [fdt EXCEPT ![f] = fdt[seen[b][w]]]
                       /\ held' = [held EXCEPT ![b][DupOf[w]] = f]
  BY DEF WriteDup, IsLowest
<1>2. fdt[seen[b][w]] = <<b, EndOf(DupOf[w])>>
  BY FieldsArePlaces DEF WriteDup, LockedReads, Table, OwnsWhatItHolds, Holds
<1>3. DupOf[w] \in Places /\ EndOf(DupOf[w]) \in Ends
  BY FieldsArePlaces, EndOfType
<1>4. TableType'
  BY <1>1, <1>2, <1>3 DEF Table, TableType
<1>5. OwnsWhatItHolds'
  BY <1>1, <1>2, <1>3, FreeIsUnheld, NoFdAssumption DEF Table, TableType, OwnsWhatItHolds, Holds
<1>6. OneHolder'
  BY <1>1, <1>3, FreeIsUnheld, NoFdAssumption DEF Table, TableType, OneHolder, Holds
<1> QED BY <1>4, <1>5, <1>6 DEF Table

(* The rest of the invariant, beside the types and the table.              *)
Others == /\ LockedReads /\ PublishedOnce /\ Publishable /\ StopOrder
          /\ CurrentIsLive /\ PlaysCurrent /\ ReadyCurrent

(* The invariant in three parts, each dealt with by lemmas of its own.     *)
LEMMA IInvParts == IInv <=> TypeOK /\ Table /\ Others
  BY DEF IInv, Table, TableType, TypeOK, Others

(* The same of the next state, in the direction the steps need.            *)
LEMMA IInvPartsNext == TypeOK' /\ Table' /\ Others' => IInv'
  BY DEF IInv, Table, TableType, TypeOK, Others

(* An action that leaves the table alone keeps it.                         *)
LEMMA UnchangedTable == Table /\ UNCHANGED <<fdt, held>> => Table'
  BY DEF Table, TableType, OwnsWhatItHolds, OneHolder, Holds

(* The GTK callbacks: none of them touches a descriptor.                   *)
LEMMA GtkKeepsIInv ==
  ASSUME IInv,
         \/ \E s \in Slots : StopStream(s)
         \/ \E b \in Bridges : StartBridge(b) \/ OnReady(b)
  PROVE  IInv'
<1> USE IInvParts, IInvPartsNext, UnchangedTable, SlotOfAssumption, NoneAssumption
<1>1. CASE \E s \in Slots : StopStream(s)
  <2> SUFFICES ASSUME NEW s \in Slots, StopStream(s) PROVE IInv'
    BY <1>1
  <2>1. TypeOK'
    BY DEF StopStream, TypeOK, StopStates
  <2>2. Table'
    BY DEF StopStream
  <2>3. CurrentIsLive' /\ PlaysCurrent'
    BY DEF StopStream, Others, CurrentIsLive, PlaysCurrent, TypeOK
  <2>4. LockedReads' /\ PublishedOnce' /\ Publishable' /\ StopOrder' /\ ReadyCurrent'
    BY DEF StopStream, Others, Publishable, LockedReads, PublishedOnce, StopOrder, ReadyCurrent, CurrentIsLive,
           Holds, TypeOK
  <2> QED BY <2>1, <2>2, <2>3, <2>4 DEF Others
<1>2. CASE \E b \in Bridges : StartBridge(b)
  <2> SUFFICES ASSUME NEW b \in Bridges, StartBridge(b) PROVE IInv'
    BY <1>2
  <2>1. TypeOK'
    BY DEF StartBridge, TypeOK, PumpStates
  <2>2. Table'
    BY DEF StartBridge
  <2>3. CurrentIsLive' /\ PlaysCurrent'
    BY DEF StartBridge, Others, CurrentIsLive, PlaysCurrent, StopOrder, TypeOK
  <2>4. LockedReads' /\ PublishedOnce' /\ Publishable' /\ StopOrder'
    BY DEF StartBridge, Others, Publishable, LockedReads, PublishedOnce, SettingUpStates, StopOrder, Holds, TypeOK
  <2>5. ReadyCurrent'
    BY DEF StartBridge, Others, ReadyCurrent, PublishedOnce, SettingUpStates, TypeOK
  <2> QED BY <2>1, <2>2, <2>3, <2>4, <2>5 DEF Others
<1>3. CASE \E b \in Bridges : OnReady(b)
  <2> SUFFICES ASSUME NEW b \in Bridges, OnReady(b) PROVE IInv'
    BY <1>3
  <2>1. TypeOK'
    BY DEF OnReady, TypeOK
  <2>2. Table'
    BY DEF OnReady
  <2>3. PlaysCurrent' /\ ReadyCurrent'
    BY DEF OnReady, StillShown, Others, PlaysCurrent, ReadyCurrent, TypeOK
  <2>4. LockedReads' /\ PublishedOnce' /\ Publishable' /\ StopOrder' /\ CurrentIsLive'
    BY DEF OnReady, Others, Publishable, LockedReads, PublishedOnce, StopOrder, CurrentIsLive, Holds
  <2> QED BY <2>1, <2>2, <2>3, <2>4 DEF Others
<1> QED BY <1>1, <1>2, <1>3

(* _close_write_fd and _close_audio_write_fd: with the lock free no writer *)
(* has read a field, and the read end is not theirs to close.              *)
LEMMA SwapOutKeeps ==
  ASSUME IInv, NEW b \in Bridges, NEW v, NEW a,
         <<v, a>> \in {<<"gtk_v", "gtk_a">>, <<"loop_v", "loop_a">>, <<None, "loop_a">>},
         SwapOut(b, v, a)
  PROVE  /\ Table' /\ LockedReads' /\ PlaysCurrent' /\ ReadyCurrent'
         /\ \A c \in Bridges, p \in Fields : ~Holds(c, p) => ~Holds(c, p)'
         /\ \A c \in Bridges, p \in {"read_fd", "new_read"} : Holds(c, p) => Holds(c, p)'
<1>1. Table'
  BY SwapOutKeepsTable DEF IInv, Table, TableType, TypeOK
<1>2. \A c \in Bridges : /\ held'[c]["read_fd"] = held[c]["read_fd"]
                         /\ held'[c]["new_read"] = held[c]["new_read"]
  BY NoneAssumption DEF SwapOut, IInv, TypeOK, Places, Fields, Own
<1>3. \A c \in Bridges, p \in Fields : ~Holds(c, p) => ~Holds(c, p)'
  BY NoneAssumption DEF SwapOut, IInv, TypeOK, Places, Fields, Holds
<1>4. \A c \in Bridges : c # b => held'[c] = held[c]
  BY DEF SwapOut, IInv, TypeOK
<1>5. \A w \in Writers : held'[b][DupOf[w]] = held[b][DupOf[w]]
  <2>1. /\ Dups \subseteq Places /\ Dups \cap {"video_fd", "audio_fd"} = {}
        /\ v \notin Dups /\ a \notin Dups
    BY NoneAssumption DEF Dups, Places
  <2>2. \A p \in Dups : held'[b][p] = held[b][p]
    BY <2>1 DEF SwapOut, IInv, TypeOK
  <2> QED BY <2>2, FieldsArePlaces
<1>6. LockedReads'
  <2> SUFFICES ASSUME NEW c \in Bridges, NEW w \in Writers
               PROVE  /\ writer[c][w] = "locked" =>
                           lock[c] = w /\ held'[c][FieldOf[w]] # NoFd /\ seen[c][w] = held'[c][FieldOf[w]]
                      /\ writer[c][w] = "writing" => held'[c][DupOf[w]] # NoFd
    BY DEF LockedReads, Holds, SwapOut
  <2>1. CASE c = b
    BY <2>1, <1>5, NoneAssumption DEF SwapOut, LockFree, IInv, LockedReads, Holds
  <2>2. CASE c # b
    BY <2>2, <1>4 DEF IInv, LockedReads, Holds
  <2> QED BY <2>1, <2>2
<1>7. PlaysCurrent'
  BY <1>2 DEF SwapOut, IInv, PlaysCurrent, TypeOK
<1>8. ReadyCurrent'
  BY <1>2, SlotOfAssumption, NoneAssumption DEF SwapOut, IInv, ReadyCurrent, TypeOK
<1> QED BY <1>1, <1>2, <1>3, <1>6, <1>7, <1>8 DEF Holds

(* The three closers that swap the fields out: GTK, the watchdog, the loop.*)
LEMMA ClosersKeepIInv ==
  ASSUME IInv, NEW b \in Bridges,
         GtkClose(b) \/ GapClose(b) \/ PumpClose(b) \/ StopClose(b)
  PROVE  IInv'
<1>1. PICK v, a : /\ <<v, a>> \in {<<"gtk_v", "gtk_a">>, <<"loop_v", "loop_a">>, <<None, "loop_a">>}
                  /\ SwapOut(b, v, a)
  BY DEF GtkClose, GapClose, PumpClose, StopClose
<1>2. /\ Table' /\ LockedReads' /\ PlaysCurrent' /\ ReadyCurrent'
      /\ \A c \in Bridges, p \in Fields : ~Holds(c, p) => ~Holds(c, p)'
      /\ \A c \in Bridges, p \in {"read_fd", "new_read"} : Holds(c, p) => Holds(c, p)'
  BY <1>1, SwapOutKeeps
<1>3. UNCHANGED <<seen, lock, writer, muxed, cur, playing, ready>>
  BY <1>1 DEF SwapOut
<1>4. pump' \in [Bridges -> PumpStates] /\ stopTask' \in [Bridges -> StopStates]
  BY DEF GtkClose, GapClose, PumpClose, StopClose, IInv, TypeOK, PumpStates, StopStates
<1>5. TypeOK'
  BY <1>2, <1>3, <1>4 DEF IInv, TypeOK, Table, TableType
<1>6. PublishedOnce'
  BY <1>2, <1>3 DEF GtkClose, GapClose, PumpClose, StopClose, IInv, PublishedOnce, SettingUpStates,
       TypeOK
<1>7. StopOrder'
  BY DEF GtkClose, GapClose, PumpClose, StopClose, IInv, StopOrder, TypeOK
<1>8. CurrentIsLive'
  BY <1>3, NoneAssumption DEF GtkClose, GapClose, PumpClose, StopClose, IInv, CurrentIsLive, TypeOK
<1>9. Publishable'
  BY <1>2 DEF GtkClose, GapClose, PumpClose, StopClose, IInv, Publishable, TypeOK
<1> QED BY <1>2, <1>5, <1>6, <1>7, <1>8, <1>9, IInvPartsNext DEF Others

(* stop() cancelling and awaiting: only the places of the tasks change.    *)
LEMMA StopTaskKeepsIInv ==
  ASSUME IInv, NEW b \in Bridges, StopCancel(b) \/ StopAwait(b)
  PROVE  IInv'
<1> USE IInvParts DEF StopCancel, StopAwait
<1>1. TypeOK'
  BY DEF TypeOK, PumpStates, StopStates
<1>2. Table'
  BY UnchangedTable
<1>3. LockedReads' /\ PlaysCurrent' /\ ReadyCurrent'
  BY DEF Others, LockedReads, PlaysCurrent, ReadyCurrent, Holds
<1>4. PublishedOnce' /\ StopOrder'
  <2>1. \A c \in Bridges : pump'[c] = pump[c] \/ pump[c] \notin {"new", "ended"}
    BY DEF TypeOK
  <2>2. \A c \in Bridges : pump'[c] \in SettingUpStates \cup {"run"}
                            => pump'[c] = pump[c] \/ pump[c] \in SettingUpStates
    BY DEF TypeOK, SettingUpStates
  <2>3. PublishedOnce'
    BY <2>2 DEF Others, PublishedOnce, SettingUpStates, Holds
  <2>4. StopOrder'
    BY <2>1 DEF Others, StopOrder, TypeOK, PumpStates
  <2> QED BY <2>3, <2>4
<1>5. CurrentIsLive'
  BY NoneAssumption DEF Others, CurrentIsLive, TypeOK
<1>6. Publishable'
  BY DEF Others, Publishable, Holds, TypeOK
<1> QED BY <1>1, <1>2, <1>3, <1>4, <1>5, <1>6, IInvPartsNext DEF Others

(* os.close() in a place that is neither a field nor a private dup.        *)
LEMMA CloseAllKeepsFields ==
  ASSUME IInv, NEW b \in Bridges, NEW P \in SUBSET Places, CloseAll(b, P)
  PROVE  /\ Table'
         /\ \A c \in Bridges, p \in Places : c # b \/ p \notin P => held'[c][p] = held[c][p]
         /\ \A c \in Bridges, p \in Places : ~Holds(c, p) => ~Holds(c, p)'
<1>1. Table'
  BY CloseAllKeepsTable, IInvParts
<1>2. /\ \A c \in Bridges, p \in Places : c # b \/ p \notin P => held'[c][p] = held[c][p]
      /\ \A c \in Bridges, p \in Places : ~Holds(c, p) => ~Holds(c, p)'
  BY DEF CloseAll, IInv, TypeOK, Holds
<1> QED BY <1>1, <1>2

(* Closing what was swapped out, or what a failed set-up had opened.       *)
LEMMA ClosesKeepIInv ==
  ASSUME IInv, NEW b \in Bridges,
         \/ \E p \in GtkLocals \cup LoopLocals : CloseSwapped(b, p)
         \/ MuxFails(b) \/ MuxCancelled(b)
  PROVE  IInv'
<1>1. PICK P \in SUBSET Places : CloseAll(b, P) /\ P \cap (Fields \cup Dups) = {}
  <2>1. ASSUME NEW p \in GtkLocals \cup LoopLocals, CloseSwapped(b, p)
        PROVE  {p} \in SUBSET Places /\ CloseAll(b, {p}) /\ {p} \cap (Fields \cup Dups) = {}
    BY <2>1 DEF CloseSwapped, Places, GtkLocals, LoopLocals, Fields, Dups
  <2>2. Own \cup Ffmpegs \in SUBSET Places /\ (Own \cup Ffmpegs) \cap (Fields \cup Dups) = {}
    BY DEF Places, Own, Ffmpegs, Fields, Dups
  <2> QED BY <2>1, <2>2 DEF MuxFails, MuxCancelled, UnwindCloses
<1>2. Table'
  BY <1>1, CloseAllKeepsFields
<1>3. \A c \in Bridges, p \in Fields \cup Dups : held'[c][p] = held[c][p]
  BY <1>1, CloseAllKeepsFields DEF Places
<1>4. UNCHANGED <<seen, lock, writer, stopTask, muxed, cur, playing, ready>>
  BY DEF CloseSwapped, MuxFails, MuxCancelled
<1>5. /\ pump' \in [Bridges -> PumpStates]
      /\ \A c \in Bridges : pump'[c] = pump[c] \/ (pump[c] \in SettingUpStates /\ pump[c] # "new"
                                                 /\ pump'[c] \in {"rawpipe", "ending"})
  BY DEF CloseSwapped, MuxFails, MuxCancelled, IInv, TypeOK, PumpStates, SettingUpStates
<1>6. TypeOK'
  BY <1>2, <1>4, <1>5 DEF IInv, TypeOK, Table, TableType
<1>7. LockedReads'
  BY <1>3, <1>4, FieldsArePlaces DEF IInv, LockedReads, Holds
<1>8. PublishedOnce'
  <2>1. \A c \in Bridges, p \in Fields : ~Holds(c, p) => ~Holds(c, p)'
    BY <1>3 DEF Holds
  <2>2. \A c \in Bridges : pump'[c] \in SettingUpStates \/ (pump'[c] = "run" /\ ~Holds(c, "read_fd")')
          => pump[c] \in SettingUpStates \/ (pump[c] = "run" /\ ~Holds(c, "read_fd"))
    BY <1>3, <1>5 DEF Holds, Fields, SettingUpStates
  <2> QED BY <2>1, <2>2, <1>4 DEF IInv, PublishedOnce
<1>9. StopOrder'
  BY <1>4, <1>5 DEF IInv, StopOrder, SettingUpStates
<1>10. CurrentIsLive' /\ PlaysCurrent' /\ ReadyCurrent'
  <2>0. \A s \in Slots : cur[s] # None => cur[s] \in Bridges
    BY DEF IInv, TypeOK
  <2>1. CurrentIsLive'
    BY <2>0, <1>4, <1>5 DEF IInv, CurrentIsLive
  <2>2. PlaysCurrent'
    BY <2>0, <1>3, <1>4 DEF IInv, PlaysCurrent, Fields
  <2>3. ReadyCurrent'
    BY <1>3, <1>4 DEF IInv, ReadyCurrent, Fields
  <2> QED BY <2>1, <2>2, <2>3
<1>11. Publishable'
  <2>1. CASE \E p \in GtkLocals \cup LoopLocals : CloseSwapped(b, p)
    <3>1. \A c \in Bridges : held'[c]["new_read"] = held[c]["new_read"]
      BY <2>1 DEF CloseSwapped, CloseAll, IInv, TypeOK, GtkLocals, LoopLocals, Places, Own
    <3> QED BY <2>1, <3>1 DEF CloseSwapped, IInv, Publishable, Holds
  <2>2. CASE MuxFails(b) \/ MuxCancelled(b)
    <3>1. \A c \in Bridges : c # b => held'[c] = held[c] /\ pump'[c] = pump[c]
      BY <2>2 DEF MuxFails, MuxCancelled, UnwindCloses, CloseAll, IInv, TypeOK
    <3>2. pump'[b] \in {"rawpipe", "ending"}
      BY <2>2 DEF MuxFails, MuxCancelled, IInv, TypeOK
    <3> QED BY <3>1, <3>2 DEF IInv, Publishable, Holds
  <2> QED BY <2>1, <2>2
<1> QED BY <1>2, <1>6, <1>7, <1>8, <1>9, <1>10, <1>11, IInvPartsNext DEF Others

(* stop() closing the read end: the slot has let go of the bridge.         *)
LEMMA StopCloseReadKeepsIInv ==
  ASSUME IInv, NEW b \in Bridges, StopCloseRead(b)
  PROVE  IInv'
<1> USE DEF StopCloseRead, StopCloses
<1>1. /\ Table'
      /\ \A c \in Bridges, p \in Places : c # b \/ p \notin {"read_fd"} => held'[c][p] = held[c][p]
      /\ \A c \in Bridges, p \in Places : ~Holds(c, p) => ~Holds(c, p)'
  BY CloseAllKeepsFields DEF Places, Fields
<1>2. TypeOK'
  BY <1>1 DEF IInv, TypeOK, Table, TableType, StopStates
<1>3. LockedReads'
  <2>1. \A w \in Writers : FieldOf[w] # "read_fd" /\ DupOf[w] # "read_fd"
    BY FieldsArePlaces DEF Dups
  <2> QED BY <1>1, <2>1, FieldsArePlaces DEF IInv, LockedReads, Holds
<1>4. PublishedOnce' /\ StopOrder'
  <2>1. pump[b] = "ended" /\ pump' = pump /\ ready' = ready
    BY DEF IInv, StopOrder
  <2>2. \A c \in Bridges, p \in Fields : c # b => held'[c][p] = held[c][p]
    BY <1>1 DEF Places
  <2>3. PublishedOnce'
    BY <2>1, <2>2 DEF IInv, PublishedOnce, SettingUpStates, Fields, Holds
  <2>4. StopOrder'
    BY <2>1 DEF IInv, StopOrder, TypeOK
  <2> QED BY <2>3, <2>4
<1>5. \A s \in Slots : cur[s] # b
  BY NoneAssumption DEF IInv, CurrentIsLive
<1>6. CurrentIsLive' /\ PlaysCurrent' /\ ReadyCurrent'
  <2>1. \A c \in Bridges : c # b => held'[c]["read_fd"] = held[c]["read_fd"]
    BY <1>1 DEF Places, Fields
  <2>2. CurrentIsLive'
    BY <1>5, NoneAssumption DEF IInv, CurrentIsLive, TypeOK
  <2>3. PlaysCurrent'
    BY <1>5, <2>1, NoneAssumption DEF IInv, PlaysCurrent, TypeOK
  <2>4. ReadyCurrent'
    BY <1>5, <2>1, SlotOfAssumption DEF IInv, ReadyCurrent
  <2> QED BY <2>2, <2>3, <2>4
<1>7. Publishable'
  BY <1>1 DEF IInv, Publishable, Holds, Places, Own, TypeOK
<1> QED BY <1>1, <1>2, <1>3, <1>4, <1>6, <1>7, IInvPartsNext DEF Others

(* Steps of the pump that only move it along.                              *)
LEMMA PumpStepsKeepIInv ==
  ASSUME IInv, NEW b \in Bridges, SetUp(b) \/ PumpEnds(b) \/ RawFails(b)
  PROVE  IInv'
<1> USE IInvParts DEF SetUp, PumpEnds, RawFails
<1>1. TypeOK'
  BY DEF TypeOK, PumpStates
<1>2. Table'
  BY UnchangedTable
<1>3. LockedReads' /\ PlaysCurrent' /\ ReadyCurrent'
  BY DEF Others, LockedReads, PlaysCurrent, ReadyCurrent, Holds
<1>4. PublishedOnce'
  BY DEF Others, PublishedOnce, SettingUpStates, Holds, TypeOK
<1>5. StopOrder'
  BY DEF Others, StopOrder, TypeOK
<1>6. CurrentIsLive'
  BY NoneAssumption DEF Others, CurrentIsLive, TypeOK
<1>7. Publishable'
  BY DEF Others, Publishable, Holds, TypeOK
<1> QED BY <1>1, <1>2, <1>3, <1>4, <1>5, <1>6, <1>7, IInvPartsNext DEF Others

(* os.pipe() during the set-up: the fields are not touched.                *)
LEMMA OpensKeepIInv ==
  ASSUME IInv, NEW b \in Bridges, MuxPipe(b) \/ RawPipe(b)
  PROVE  IInv'
<1>1. PICK r, w : /\ r \in Own \cup Ffmpegs /\ w \in Own \cup Ffmpegs /\ r # w
                  /\ pump[b] \in {"pipe3", "rawpipe"} => r = "new_read"
                  /\ OpenPipe(b, r, w)
  BY DEF MuxPipe, RawPipe, Own, Ffmpegs
<1>2. r \in Places /\ w \in Places /\ {r, w} \cap (Fields \cup Dups) = {}
  BY <1>1 DEF Places, Own, Ffmpegs, Fields, Dups
<1>3. Table'
  BY <1>1, <1>2, OpenPipeKeepsTable, IInvParts
<1>4. /\ \A c \in Bridges, p \in Fields \cup Dups : held'[c][p] = held[c][p]
      /\ \A c \in Bridges : c # b => held'[c] = held[c]
      /\ pump[b] \in {"pipe3", "rawpipe"} => held'[b]["new_read"] # NoFd
  BY <1>1, <1>2, NoFdAssumption DEF OpenPipe, IInv, TypeOK, Places
<1>5. UNCHANGED <<seen, lock, writer, stopTask, muxed, cur, playing, ready>>
  BY DEF MuxPipe, RawPipe
<1>6. /\ pump' \in [Bridges -> PumpStates]
      /\ \A c \in Bridges : c # b => pump'[c] = pump[c]
      /\ pump[b] \in {"pipe1", "pipe2", "pipe3", "rawpipe"}
      /\ pump'[b] \in {"pipe2", "pipe3", "spawn", "rawpublish"}
      /\ pump'[b] \in {"spawn", "rawpublish"} => pump[b] \in {"pipe3", "rawpipe"}
  BY DEF MuxPipe, RawPipe, IInv, TypeOK, PumpStates
<1>7. TypeOK'
  BY <1>3, <1>5, <1>6 DEF IInv, TypeOK, Table, TableType
<1>8. LockedReads'
  BY <1>4, <1>5, FieldsArePlaces DEF IInv, LockedReads, Holds
<1>9. PublishedOnce'
  BY <1>4, <1>5, <1>6 DEF IInv, PublishedOnce, SettingUpStates, Fields, Holds
<1>10. Publishable'
  BY <1>4, <1>6 DEF IInv, Publishable, Holds
<1>11. StopOrder'
  BY <1>5, <1>6 DEF IInv, StopOrder
<1>12. CurrentIsLive' /\ PlaysCurrent' /\ ReadyCurrent'
  <2>0. \A s \in Slots : cur[s] # None => cur[s] \in Bridges
    BY DEF IInv, TypeOK
  <2>1. CurrentIsLive'
    BY <2>0, <1>5, <1>6 DEF IInv, CurrentIsLive
  <2>2. PlaysCurrent' /\ ReadyCurrent'
    BY <2>0, <1>4, <1>5 DEF IInv, PlaysCurrent, ReadyCurrent, Fields
  <2> QED BY <2>1, <2>2
<1> QED BY <1>3, <1>7, <1>8, <1>9, <1>10, <1>11, <1>12, IInvPartsNext DEF Others

(* Publishing: nothing was in the fields, so nobody read or played them.   *)
LEMMA PublishKeepsIInv ==
  ASSUME IInv, NEW b \in Bridges, MuxStarted(b) \/ RawPublish(b)
  PROVE  IInv'
<1>1. PICK C \in SUBSET Ffmpegs : Publish(b, C)
  BY DEF MuxStarted, RawPublish
<1>2. Table'
  BY <1>1, PublishKeepsTable, IInvParts
<1>3. /\ pump[b] \in {"spawn", "rawpublish"}
      /\ ready[b] = NoFd /\ (\A p \in Fields : ~Holds(b, p)) /\ Holds(b, "new_read")
  BY DEF MuxStarted, RawPublish, IInv, PublishedOnce, SettingUpStates, Publishable
<1>4. /\ \A c \in Bridges : c # b => held'[c] = held[c] /\ ready'[c] = ready[c] /\ pump'[c] = pump[c]
      /\ held'[b]["read_fd"] = held[b]["new_read"] /\ ready'[b] = held[b]["new_read"]
      /\ pump'[b] = "run"
      /\ \A w \in Writers : held'[b][DupOf[w]] = held[b][DupOf[w]]
  <2>1. \A p \in Dups : held'[b][p] = held[b][p]
    BY <1>1 DEF Publish, IInv, TypeOK, Places, Dups, Ffmpegs, Own
  <2>2. held'[b]["read_fd"] = held[b]["new_read"]
    <3>1. "read_fd" \in Places
      BY DEF Places, Fields
    <3>2. held' = [held EXCEPT ![b] = [p \in Places |->
                     CASE p = "video_fd" -> held[b]["new_video"]
                       [] p = "audio_fd" -> held[b]["new_audio"]
                       [] p = "read_fd"  -> held[b]["new_read"]
                       [] p \in Own \cup C -> NoFd
                       [] OTHER -> held[b][p]]]
      BY <1>1 DEF Publish
    <3>3. "read_fd" \notin Own /\ "read_fd" \notin C
      BY DEF Own, Ffmpegs
    <3> QED BY <3>1, <3>2, <3>3 DEF IInv, TypeOK
  <2>3. /\ \A c \in Bridges : c # b => held'[c] = held[c] /\ ready'[c] = ready[c] /\ pump'[c] = pump[c]
        /\ ready'[b] = held[b]["new_read"] /\ pump'[b] = "run"
    BY <1>1 DEF Publish, IInv, TypeOK
  <2> QED BY <2>1, <2>2, <2>3, FieldsArePlaces
<1>5. UNCHANGED <<seen, lock, writer, stopTask, cur, playing>>
  BY DEF MuxStarted, RawPublish
<1>6. TypeOK'
  <2>1. /\ muxed' \in [Bridges -> BOOLEAN] /\ pump' \in [Bridges -> PumpStates]
        /\ ready' \in [Bridges -> Fds \cup {NoFd}]
    <3>1. "new_read" \in Places /\ "run" \in PumpStates
      BY DEF Places, Own, PumpStates
    <3>2. held[b]["new_read"] \in Fds \cup {NoFd}
      BY <3>1 DEF IInv, TypeOK
    <3>3. muxed' \in [Bridges -> BOOLEAN]
      BY DEF MuxStarted, RawPublish, IInv, TypeOK
    <3> QED BY <1>1, <3>1, <3>2, <3>3 DEF Publish, IInv, TypeOK
  <2> QED BY <1>2, <1>5, <2>1 DEF IInv, TypeOK, Table, TableType
<1>7. LockedReads'
  <2>1. \A w \in Writers : writer[b][w] # "locked"
    BY <1>3, FieldsArePlaces DEF IInv, LockedReads
  <2> QED BY <2>1, <1>4, <1>5 DEF IInv, LockedReads, Holds
<1>8. PublishedOnce'
  BY <1>3, <1>4 DEF IInv, PublishedOnce, SettingUpStates, Holds, Fields
<1>9. Publishable'
  BY <1>4 DEF IInv, Publishable, Holds
<1>10. StopOrder'
  BY <1>3, <1>4, <1>5 DEF IInv, StopOrder
<1>11. CurrentIsLive' /\ PlaysCurrent' /\ ReadyCurrent'
  <2>0. \A s \in Slots : cur[s] # None => cur[s] \in Bridges
    BY DEF IInv, TypeOK
  <2>1. CurrentIsLive'
    BY <2>0, <1>4, <1>5 DEF IInv, CurrentIsLive
  <2>2. \A s \in Slots : playing[s] # NoFd => cur[s] # b
    BY <1>3 DEF IInv, PlaysCurrent, Holds, Fields
  <2>3. PlaysCurrent'
    BY <2>0, <2>2, <1>4, <1>5 DEF IInv, PlaysCurrent
  <2>4. ReadyCurrent'
    BY <1>4, <1>5 DEF IInv, ReadyCurrent
  <2> QED BY <2>1, <2>3, <2>4
<1> QED BY <1>2, <1>6, <1>7, <1>8, <1>9, <1>10, <1>11, IInvPartsNext DEF Others

(* The writers: a field is read, duplicated and let go of under the lock.  *)
LEMMA WritersKeepIInv ==
  ASSUME IInv, NEW b \in Bridges, NEW w \in Writers, Writing(b, w)
  PROVE  IInv'
<1>1. Table'
  <2>1. CASE WriteLock(b, w) \/ DupFails(b, w)
    BY <2>1, IInvParts, UnchangedTable DEF WriteLock, DupFails
  <2>2. CASE WriteDup(b, w)
    BY <2>2, IInvParts, WriteDupKeepsTable DEF Others
  <2>3. CASE WriteEnd(b, w)
    BY <2>3, IInvParts, CloseAllKeepsTable, FieldsArePlaces DEF WriteEnd
  <2> QED BY <2>1, <2>2, <2>3 DEF Writing
<1>2. UNCHANGED <<pump, stopTask, muxed, cur, playing, ready>>
  BY DEF Writing, WriteLock, DupFails, WriteDup, WriteEnd
<1>3. \A c \in Bridges, p \in Places : held'[c][p] = held[c][p] \/ (c = b /\ p = DupOf[w])
  BY FieldsArePlaces DEF Writing, WriteLock, DupFails, WriteDup, WriteEnd, CloseAll, IInv, TypeOK
<1>4. \A c \in Bridges, p \in Fields \cup Own : held'[c][p] = held[c][p]
  <2>1. Fields \cup Own \subseteq Places \ Dups
    BY DEF Places, Fields, Own, Dups
  <2> QED BY <1>3, <2>1, FieldsArePlaces
<1>5. TypeOK'
  <2>1. /\ seen' \in [Bridges -> [Writers -> Fds \cup {NoFd}]]
        /\ lock' \in [Bridges -> Writers \cup {None}]
        /\ writer' \in [Bridges -> [Writers -> {"idle", "locked", "writing"}]]
    <3>1. held[b][FieldOf[w]] \in Fds \cup {NoFd}
      BY FieldsArePlaces DEF IInv, TypeOK
    <3>2. CASE WriteLock(b, w)
      BY <3>1, <3>2 DEF WriteLock, IInv, TypeOK
    <3>3. CASE DupFails(b, w) \/ WriteDup(b, w)
      <4>1. /\ seen' = [seen EXCEPT ![b][w] = NoFd] /\ lock' = [lock EXCEPT ![b] = None]
            /\ \E x \in {"idle", "writing"} : writer' = [writer EXCEPT ![b][w] = x]
        BY <3>3 DEF DupFails, WriteDup
      <4> QED BY <4>1 DEF IInv, TypeOK
    <3>4. CASE WriteEnd(b, w)
      BY <3>4 DEF WriteEnd, IInv, TypeOK
    <3> QED BY <3>2, <3>3, <3>4 DEF Writing
  <2> QED BY <1>1, <1>2, <2>1 DEF IInv, TypeOK, Table, TableType
<1>6. LockedReads'
  <2> SUFFICES ASSUME NEW c \in Bridges, NEW x \in Writers
               PROVE  /\ writer'[c][x] = "locked" =>
                           /\ lock'[c] = x /\ held'[c][FieldOf[x]] # NoFd
                           /\ seen'[c][x] = held'[c][FieldOf[x]]
                      /\ writer'[c][x] = "writing" => held'[c][DupOf[x]] # NoFd
    BY DEF LockedReads, Holds
  <2>1. held'[c][FieldOf[x]] = held[c][FieldOf[x]]
    BY <1>4, FieldsArePlaces
  <2>2. x # w => DupOf[x] # DupOf[w]
    BY WritersAssumption DEF DupOf
  <2>3. c # b \/ x # w => held'[c][DupOf[x]] = held[c][DupOf[x]]
    BY <1>3, <2>2, FieldsArePlaces
  <2>4. CASE WriteLock(b, w)
    BY <2>1, <2>3, <2>4, FieldsArePlaces, NoneAssumption DEF WriteLock, IInv, LockedReads, Holds, TypeOK
  <2>5. CASE WriteDup(b, w)
    <3>1. held'[b][DupOf[w]] # NoFd
      BY <2>5, FieldsArePlaces, NoFdAssumption DEF WriteDup, IInv, TypeOK
    <3> QED BY <3>1, <2>1, <2>3, <2>5, FieldsArePlaces DEF WriteDup, IInv, LockedReads, Holds, TypeOK
  <2>6. CASE DupFails(b, w)
    BY <2>1, <2>6, FieldsArePlaces DEF DupFails, IInv, LockedReads, Holds, TypeOK
  <2>7. CASE WriteEnd(b, w)
    BY <2>1, <2>3, <2>7, FieldsArePlaces DEF WriteEnd, IInv, LockedReads, Holds, TypeOK
  <2> QED BY <2>4, <2>5, <2>6, <2>7 DEF Writing
<1>7. PublishedOnce' /\ Publishable' /\ StopOrder'
  BY <1>2, <1>4 DEF IInv, PublishedOnce, Publishable, StopOrder, Fields, Own, Holds
<1>8. CurrentIsLive' /\ PlaysCurrent' /\ ReadyCurrent'
  <2>0. \A s \in Slots : cur[s] # None => cur[s] \in Bridges
    BY DEF IInv, TypeOK
  <2> QED BY <2>0, <1>2, <1>4 DEF IInv, CurrentIsLive, PlaysCurrent, ReadyCurrent, Fields
<1> QED BY <1>1, <1>5, <1>6, <1>7, <1>8, IInvPartsNext DEF Others

(* Nothing is open and nothing is kept at the start.                       *)
LEMMA InitIInv == Init => IInv
<1> SUFFICES ASSUME Init PROVE IInv
  OBVIOUS
<1>1. TypeOK
  BY DEF Init, TypeOK, PumpStates, StopStates
<1>2. OwnsWhatItHolds /\ OneHolder /\ LockedReads /\ PublishedOnce /\ Publishable /\ StopOrder
  BY DEF Init, OwnsWhatItHolds, OneHolder, LockedReads, PublishedOnce, Publishable, StopOrder, Holds,
         Places
<1>3. CurrentIsLive /\ PlaysCurrent /\ ReadyCurrent
  BY DEF Init, CurrentIsLive, PlaysCurrent, ReadyCurrent
<1> QED BY <1>1, <1>2, <1>3 DEF IInv

(* One action after another: every step keeps the invariant.               *)
LEMMA StepIInv == IInv /\ [Next]_vars => IInv'
<1> SUFFICES ASSUME IInv, [Next]_vars PROVE IInv'
  OBVIOUS
<1>1. CASE UNCHANGED vars
  <2>1. TypeOK' /\ Table'
    BY <1>1, IInvParts, UnchangedTable DEF vars, TypeOK
  <2>2. Others'
    BY <1>1, IInvParts DEF vars, Others, LockedReads, PublishedOnce, Publishable, StopOrder,
       CurrentIsLive, PlaysCurrent, ReadyCurrent, Holds
  <2> QED BY <2>1, <2>2, IInvPartsNext
<1>2. ASSUME NEW s \in Slots, StopStream(s) PROVE IInv'
  BY <1>2, GtkKeepsIInv
<1>3. ASSUME NEW b \in Bridges, StartBridge(b) \/ OnReady(b) PROVE IInv'
  BY <1>3, GtkKeepsIInv
<1>4. ASSUME NEW b \in Bridges, GapClose(b) PROVE IInv'
  BY <1>4, ClosersKeepIInv
<1>5. ASSUME NEW b \in Bridges, Stopping(b) PROVE IInv'
  BY <1>5, ClosersKeepIInv, StopTaskKeepsIInv, StopCloseReadKeepsIInv, ClosesKeepIInv DEF Stopping
<1>6. ASSUME NEW b \in Bridges, Pumping(b) PROVE IInv'
  BY <1>6, ClosersKeepIInv, PumpStepsKeepIInv, OpensKeepIInv, ClosesKeepIInv, PublishKeepsIInv
     DEF Pumping, SettingUp
<1>7. ASSUME NEW b \in Bridges, NEW w \in Writers, Writing(b, w) PROVE IInv'
  BY <1>7, WritersKeepIInv
<1> QED BY <1>1, <1>2, <1>3, <1>4, <1>5, <1>6, <1>7 DEF Next

----------------------------------------------------------------------------
(* What is open is kept by somebody, and who keeps what at which stage.    *)

(* No open number is forgotten.                                            *)
EverythingKept ==
  \A f \in Fds : fdt[f] # None => \E b \in Bridges, p \in Places : held[b][p] = f

(* The locals of the set-up hold something only between the pipe() that    *)
(* fills them and the clean-up or the publication that empties them.       *)
SetUpInTime(b) ==
  /\ pump[b] \notin {"pipe2", "pipe3", "spawn", "unwind"} => \A p \in Ffmpegs : ~Holds(b, p)
  /\ pump[b] \notin {"pipe2", "pipe3", "spawn", "unwind", "rawpublish"} =>
       \A p \in Own : ~Holds(b, p)
  /\ pump[b] = "pipe2" => ~Holds(b, "ff_audio") /\ ~Holds(b, "new_audio")
  /\ pump[b] \in {"pipe2", "pipe3"} => ~Holds(b, "ff_out") /\ ~Holds(b, "new_read")
LocalsInTime == \A b \in Bridges : SetUpInTime(b)

(* The closers' locals are empty when the next swap fills them, and all    *)
(* that stop() waits for has closed what it held.                          *)
ClosersInTime ==
  \A b \in Bridges :
    /\ stopTask[b] # "swapped" => \A p \in GtkLocals : ~Holds(b, p)
    /\ pump[b] = "ended" => ~Holds(b, "video_fd") /\ ~Holds(b, "audio_fd")
    /\ stopTask[b] = "done" => ~Holds(b, "read_fd") /\ \A p \in LoopLocals : ~Holds(b, p)

(* A private dup lives as long as the write it was made for.               *)
DupsInTime ==
  \A b \in Bridges, p \in Dups :
    Holds(b, p) => \E w \in Writers : p = DupOf[w] /\ writer[b][w] = "writing"

LeakInv == EverythingKept /\ LocalsInTime /\ ClosersInTime /\ DupsInTime

(* The kinds of places have nothing in common.                             *)
LEMMA PlacesApart ==
  /\ Fields \cup Own \cup Ffmpegs \cup Dups \cup GtkLocals \cup LoopLocals = Places
  /\ Fields \cap Own = {} /\ Fields \cap Ffmpegs = {} /\ Fields \cap Dups = {}
  /\ Fields \cap GtkLocals = {} /\ Fields \cap LoopLocals = {}
  /\ Own \cap Ffmpegs = {} /\ Own \cap Dups = {} /\ Own \cap GtkLocals = {} /\ Own \cap LoopLocals = {}
  /\ Ffmpegs \cap Dups = {} /\ Ffmpegs \cap GtkLocals = {} /\ Ffmpegs \cap LoopLocals = {}
  /\ Dups \cap GtkLocals = {} /\ Dups \cap LoopLocals = {} /\ GtkLocals \cap LoopLocals = {}
<1>1. Fields \cup Own \cup Ffmpegs \cup Dups \cup GtkLocals \cup LoopLocals = Places
  BY DEF Places
<1>2. /\ Fields \cap Own = {} /\ Fields \cap Ffmpegs = {} /\ Fields \cap Dups = {}
      /\ Fields \cap GtkLocals = {} /\ Fields \cap LoopLocals = {}
  BY DEF Fields, Own, Ffmpegs, Dups, GtkLocals, LoopLocals
<1>3. /\ Own \cap Ffmpegs = {} /\ Own \cap Dups = {} /\ Own \cap GtkLocals = {}
      /\ Own \cap LoopLocals = {} /\ Ffmpegs \cap Dups = {} /\ Ffmpegs \cap GtkLocals = {}
  BY DEF Own, Ffmpegs, Dups, GtkLocals, LoopLocals
<1>4. /\ Ffmpegs \cap LoopLocals = {} /\ Dups \cap GtkLocals = {} /\ Dups \cap LoopLocals = {}
      /\ GtkLocals \cap LoopLocals = {}
  BY DEF Ffmpegs, Dups, GtkLocals, LoopLocals
<1> QED BY <1>1, <1>2, <1>3, <1>4

(* pipe() into two empty places forgets nothing.                           *)
LEMMA OpenPipeForgetsNothing ==
  ASSUME TableType, EverythingKept, NEW b \in Bridges, NEW r \in Places, NEW w \in Places, r # w,
         ~Holds(b, r), ~Holds(b, w), OpenPipe(b, r, w)
  PROVE  /\ EverythingKept'
         /\ \A c \in Bridges, p \in Places : c # b \/ (p # r /\ p # w) => held'[c][p] = held[c][p]
<1>1. PICK f, g \in Fds :
        /\ fdt' = [fdt EXCEPT ![f] = <<b, EndOf(r)>>, ![g] = <<b, EndOf(w)>>]
        /\ held' = [held EXCEPT ![b][r] = f, ![b][w] = g]
  BY DEF OpenPipe, IsLowest
<1>2. /\ held'[b][r] = f /\ held'[b][w] = g
      /\ \A c \in Bridges, p \in Places : c # b \/ (p # r /\ p # w) => held'[c][p] = held[c][p]
  BY <1>1 DEF TableType
<1>3. \A h \in Fds : h # f /\ h # g => fdt'[h] = fdt[h]
  BY <1>1 DEF TableType
<1>4. ASSUME NEW h \in Fds, fdt'[h] # None
      PROVE  \E c \in Bridges, p \in Places : held'[c][p] = h
  <2>1. CASE h = f \/ h = g
    BY <1>2, <2>1
  <2>2. CASE h # f /\ h # g
    <3>1. PICK c \in Bridges, p \in Places : held[c][p] = h
      BY <1>3, <1>4, <2>2 DEF EverythingKept
    <3>2. c # b \/ (p # r /\ p # w)
      BY <3>1, NoFdAssumption DEF Holds
    <3> QED BY <1>2, <3>1, <3>2
  <2> QED BY <2>1, <2>2
<1> QED BY <1>2, <1>4 DEF EverythingKept

(* close() forgets only what it closes.                                    *)
LEMMA CloseAllForgetsNothing ==
  ASSUME TableType, EverythingKept, NEW b \in Bridges, NEW P \in SUBSET Places, CloseAll(b, P)
  PROVE  /\ EverythingKept'
         /\ \A c \in Bridges, p \in Places : c # b \/ p \notin P => held'[c][p] = held[c][p]
         /\ \A p \in P : held'[b][p] = NoFd
<1>1. /\ \A c \in Bridges, p \in Places : c # b \/ p \notin P => held'[c][p] = held[c][p]
      /\ \A p \in P : held'[b][p] = NoFd
  BY DEF CloseAll, TableType
<1>2. \A f \in Fds : fdt'[f] # None => fdt[f] # None /\ \A p \in P : held[b][p] # f
  BY DEF CloseAll
<1>3. ASSUME NEW f \in Fds, fdt'[f] # None
      PROVE  \E c \in Bridges, p \in Places : held'[c][p] = f
  <2>1. PICK c \in Bridges, p \in Places : held[c][p] = f
    BY <1>2, <1>3 DEF EverythingKept
  <2>2. c # b \/ p \notin P
    BY <1>2, <1>3, <2>1
  <2> QED BY <1>1, <2>1, <2>2
<1> QED BY <1>1, <1>3 DEF EverythingKept

(* A swap into empty locals forgets nothing.                               *)
LEMMA SwapOutForgetsNothing ==
  ASSUME TableType, EverythingKept, NEW b \in Bridges, NEW v, NEW a,
         <<v, a>> \in {<<"gtk_v", "gtk_a">>, <<"loop_v", "loop_a">>, <<None, "loop_a">>},
         SwapOut(b, v, a), v \in Places => ~Holds(b, v), ~Holds(b, a)
  PROVE  /\ EverythingKept'
         /\ \A c \in Bridges, p \in Places :
              c # b \/ p \notin {v, a, "video_fd", "audio_fd"} => held'[c][p] = held[c][p]
         /\ held'[b]["audio_fd"] = NoFd
         /\ v # None => held'[b]["video_fd"] = NoFd
         /\ held[b]["video_fd"] = NoFd => held'[b]["video_fd"] = NoFd
<1>1. /\ a \in Places /\ (v = None \/ v \in Places) /\ a # v /\ None \notin Places
      /\ {v, a} \cap {"video_fd", "audio_fd"} = {} /\ {"video_fd", "audio_fd"} \subseteq Places
  BY NoneAssumption DEF Places, Fields, GtkLocals, LoopLocals
<1>2. held' = [held EXCEPT ![b] = [p \in Places |->
                CASE p = v -> held[b]["video_fd"]
                  [] p = a -> held[b]["audio_fd"]
                  [] p = "audio_fd" -> NoFd
                  [] p = "video_fd" /\ v # None -> NoFd
                  [] OTHER -> held[b][p]]]
  BY DEF SwapOut
<1>3. \A c \in Bridges : c # b => held'[c] = held[c]
  BY <1>2 DEF TableType
<1>4. \A p \in Places : held'[b][p] = CASE p = v -> held[b]["video_fd"]
                  [] p = a -> held[b]["audio_fd"]
                  [] p = "audio_fd" -> NoFd
                  [] p = "video_fd" /\ v # None -> NoFd
                  [] OTHER -> held[b][p]
  BY <1>2 DEF TableType
<1>5. /\ v # None => held'[b][v] = held[b]["video_fd"]
      /\ held'[b][a] = held[b]["audio_fd"]
      /\ held'[b]["audio_fd"] = NoFd
      /\ v # None => held'[b]["video_fd"] = NoFd
      /\ v = None => held'[b]["video_fd"] = held[b]["video_fd"]
      /\ \A p \in Places : p \notin {v, a, "video_fd", "audio_fd"} => held'[b][p] = held[b][p]
  BY <1>1, <1>4
<1>6. ASSUME NEW f \in Fds, fdt'[f] # None
      PROVE  \E c \in Bridges, p \in Places : held'[c][p] = f
  <2>1. PICK c \in Bridges, p \in Places : held[c][p] = f
    BY <1>6 DEF EverythingKept, SwapOut
  <2>2. f # NoFd
    BY NoFdAssumption
  <2>3. CASE c # b
    BY <1>3, <2>1, <2>3
  <2>4. CASE c = b /\ p = "video_fd"
    BY <1>1, <1>5, <2>1, <2>4
  <2>5. CASE c = b /\ p = "audio_fd"
    BY <1>1, <1>5, <2>1, <2>5
  <2>6. CASE c = b /\ p \notin {"video_fd", "audio_fd"}
    <3>1. p # v /\ p # a
      BY <1>1, <2>1, <2>2, <2>6 DEF Holds
    <3> QED BY <1>5, <2>1, <2>6, <3>1
  <2> QED BY <2>3, <2>4, <2>5, <2>6
<1> QED BY <1>3, <1>5, <1>6 DEF EverythingKept

(* Nor does publishing into empty fields.                                  *)
LEMMA PublishForgetsNothing ==
  ASSUME TableType, EverythingKept, NEW b \in Bridges, NEW C \in SUBSET Ffmpegs, Publish(b, C),
         \A p \in Fields : ~Holds(b, p)
  PROVE  /\ EverythingKept'
         /\ \A c \in Bridges, p \in Places :
              c # b \/ p \notin Fields \cup Own \cup C => held'[c][p] = held[c][p]
         /\ \A p \in Own \cup C : held'[b][p] = NoFd
<1> DEFINE to(p) == CASE p = "new_video" -> "video_fd" [] p = "new_audio" -> "audio_fd"
                      [] p = "new_read" -> "read_fd" [] OTHER -> p
<1>1. \A p \in Places : held'[b][p] =
          CASE p = "video_fd" -> held[b]["new_video"]
            [] p = "audio_fd" -> held[b]["new_audio"]
            [] p = "read_fd"  -> held[b]["new_read"]
            [] p \in Own \cup C -> NoFd
            [] OTHER -> held[b][p]
  BY DEF Publish, TableType
<1>2. \A c \in Bridges : c # b => held'[c] = held[c]
  BY DEF Publish, TableType
<1>3. \A p \in Own \cup C : p \in Places /\ p \notin Fields
  BY PlacesApart
<1>4. \A p \in Own \cup C : held'[b][p] = NoFd
  BY <1>1, <1>3 DEF Fields
<1>5. \A p \in Places : p \notin Fields \cup Own \cup C => held'[b][p] = held[b][p]
  BY <1>1 DEF Fields
<1>6. \A p \in Own : to(p) \in Places /\ held'[b][to(p)] = held[b][p]
  <2>1. {"video_fd", "audio_fd", "read_fd"} \subseteq Places
    BY DEF Places, Fields
  <2>2. /\ held'[b]["video_fd"] = held[b]["new_video"]
        /\ held'[b]["audio_fd"] = held[b]["new_audio"]
        /\ held'[b]["read_fd"] = held[b]["new_read"]
    <3>1. {"video_fd", "audio_fd", "read_fd"} \cap (Own \cup C) = {}
      BY DEF Own, Ffmpegs
    <3> QED BY <1>1, <2>1, <3>1
  <2>3. \A p \in Own : p = "new_video" \/ p = "new_audio" \/ p = "new_read"
    BY DEF Own
  <2> QED BY <2>1, <2>2, <2>3
<1>7. \A f \in Fds : fdt'[f] # None => fdt[f] # None /\ \A p \in C : held[b][p] # f
  BY DEF Publish
<1> HIDE DEF to
<1>8. ASSUME NEW f \in Fds, fdt'[f] # None
      PROVE  \E c \in Bridges, p \in Places : held'[c][p] = f
  <2>1. PICK c \in Bridges, p \in Places : held[c][p] = f
    BY <1>7, <1>8 DEF EverythingKept
  <2>2. CASE c # b
    BY <1>2, <2>1, <2>2
  <2>3. CASE c = b /\ p \in Own
    BY <1>6, <2>1, <2>3
  <2>4. CASE c = b /\ p \notin Own
    <3>1. p \notin C /\ p \notin Fields
      BY <1>7, <1>8, <2>1, <2>4, NoFdAssumption DEF Holds
    <3> QED BY <1>5, <2>1, <2>4, <3>1
  <2> QED BY <2>2, <2>3, <2>4
<1> QED BY <1>2, <1>4, <1>5, <1>8 DEF EverythingKept

(* dup() into an empty place forgets nothing.                              *)
LEMMA WriteDupForgetsNothing ==
  ASSUME TableType, EverythingKept, NEW b \in Bridges, NEW w \in Writers, WriteDup(b, w),
         ~Holds(b, DupOf[w])
  PROVE  /\ EverythingKept'
         /\ \A c \in Bridges, p \in Places : c # b \/ p # DupOf[w] => held'[c][p] = held[c][p]
<1>1. PICK f \in Fds : /\ fdt' = [fdt EXCEPT ![f] = fdt[seen[b][w]]]
                       /\ held' = [held EXCEPT ![b][DupOf[w]] = f]
  BY DEF WriteDup
<1>2. DupOf[w] \in Places
  BY FieldsArePlaces
<1>3. /\ held'[b][DupOf[w]] = f
      /\ \A c \in Bridges, p \in Places : c # b \/ p # DupOf[w] => held'[c][p] = held[c][p]
      /\ \A h \in Fds : h # f => fdt'[h] = fdt[h]
  BY <1>1, <1>2 DEF TableType
<1>4. ASSUME NEW h \in Fds, fdt'[h] # None
      PROVE  \E c \in Bridges, p \in Places : held'[c][p] = h
  <2>1. CASE h = f
    BY <1>2, <1>3, <2>1
  <2>2. CASE h # f
    <3>1. PICK c \in Bridges, p \in Places : held[c][p] = h
      BY <1>3, <1>4, <2>2 DEF EverythingKept
    <3>2. c # b \/ p # DupOf[w]
      BY <3>1, NoFdAssumption DEF Holds
    <3> QED BY <1>3, <3>1, <3>2
  <2> QED BY <2>1, <2>2
<1> QED BY <1>3, <1>4 DEF EverythingKept

(* Steps that open, close and move nothing.                                *)
LEMMA StillStepsKeepLeakInv ==
  ASSUME IInv, LeakInv, UNCHANGED <<fdt, held>>,
         \/ UNCHANGED vars
         \/ \E s \in Slots : StopStream(s)
         \/ \E b \in Bridges : StartBridge(b) \/ OnReady(b) \/ StopCancel(b) \/ StopAwait(b)
                               \/ SetUp(b) \/ RawFails(b) \/ PumpEnds(b)
         \/ \E b \in Bridges, w \in Writers : WriteLock(b, w) \/ DupFails(b, w)
  PROVE  LeakInv'
<1>1. EverythingKept'
  BY DEF LeakInv, EverythingKept
<1>2. LocalsInTime'
  <2>1. \A c \in Bridges : pump'[c] = pump[c]
          \/ (pump[c] \in {"new", "run", "rawpipe"} /\ pump'[c] \in {"run", "pipe1", "rawpipe", "ending"})
          \/ (pump[c] = "spawn" /\ pump'[c] = "unwind")
    BY DEF vars, StopStream, StartBridge, OnReady, StopCancel, StopAwait, SetUp, RawFails, PumpEnds,
           WriteLock, DupFails, IInv, TypeOK
  <2> QED BY <2>1 DEF LeakInv, LocalsInTime, SetUpInTime, Holds
<1>3. ClosersInTime'
  <2>1. \A c \in Bridges : pump'[c] = "ended" => pump[c] = "ended"
    BY DEF vars, StopStream, StartBridge, OnReady, StopCancel, StopAwait, SetUp, RawFails, PumpEnds,
           WriteLock, DupFails, IInv, TypeOK
  <2>2. \A c \in Bridges : stopTask'[c] = "done" => stopTask[c] = "done"
    BY NoneAssumption DEF vars, StopStream, StartBridge, OnReady, StopCancel, StopAwait, SetUp, RawFails,
           PumpEnds, WriteLock, DupFails, IInv, TypeOK
  <2>3. \A c \in Bridges : stopTask'[c] # "swapped" =>
          stopTask[c] # "swapped" \/ \A p \in GtkLocals : ~Holds(c, p)
    BY DEF vars, StopStream, GtkIdle, StartBridge, OnReady, StopCancel, StopAwait, SetUp, RawFails,
           PumpEnds, WriteLock, DupFails, IInv, TypeOK
  <2> QED BY <2>1, <2>2, <2>3 DEF LeakInv, ClosersInTime, Holds
<1>4. DupsInTime'
  <2>1. \A c \in Bridges, x \in Writers : writer[c][x] = "writing" => writer'[c][x] = "writing"
    <3>1. CASE \E b \in Bridges, w \in Writers : WriteLock(b, w) \/ DupFails(b, w)
      <4>1. PICK b \in Bridges, w \in Writers, x \in {"locked", "idle"} :
              writer[b][w] # "writing" /\ writer' = [writer EXCEPT ![b][w] = x]
        BY <3>1 DEF WriteLock, DupFails
      <4> QED BY <4>1 DEF IInv, TypeOK
    <3>2. CASE ~\E b \in Bridges, w \in Writers : WriteLock(b, w) \/ DupFails(b, w)
      BY <3>2 DEF vars, StopStream, StartBridge, OnReady, StopCancel, StopAwait, SetUp, RawFails, PumpEnds
    <3> QED BY <3>1, <3>2
  <2> QED BY <2>1 DEF LeakInv, DupsInTime, Holds
<1> QED BY <1>1, <1>2, <1>3, <1>4 DEF LeakInv

(* The four swaps fill locals that are empty, and empty the fields.        *)
LEMMA ClosersKeepLeakInv ==
  ASSUME IInv, LeakInv, NEW b \in Bridges,
         GtkClose(b) \/ GapClose(b) \/ PumpClose(b) \/ StopClose(b)
  PROVE  LeakInv'
<1>1. PICK v, a : /\ <<v, a>> \in {<<"gtk_v", "gtk_a">>, <<"loop_v", "loop_a">>, <<None, "loop_a">>}
                  /\ SwapOut(b, v, a)
                  /\ \/ GtkClose(b) /\ v = "gtk_v" /\ a = "gtk_a"
                     \/ GapClose(b) /\ v = None /\ a = "loop_a"
                     \/ (PumpClose(b) \/ StopClose(b)) /\ v = "loop_v" /\ a = "loop_a"
  BY DEF GtkClose, GapClose, PumpClose, StopClose
<1>2. (v \in Places => ~Holds(b, v)) /\ ~Holds(b, a)
  <2>1. CASE GtkClose(b) /\ v = "gtk_v" /\ a = "gtk_a"
    BY <2>1 DEF GtkClose, LeakInv, ClosersInTime, GtkLocals
  <2>2. CASE ~(GtkClose(b) /\ v = "gtk_v" /\ a = "gtk_a")
    <3>1. LoopIdle /\ a = "loop_a" /\ (v = "loop_v" \/ v = None)
      BY <1>1, <2>2 DEF GapClose, PumpClose, StopClose
    <3>2. ~Holds(b, "loop_v") /\ ~Holds(b, "loop_a")
      BY <3>1 DEF LoopIdle, LoopLocals
    <3>3. None \notin Places
      BY NoneAssumption
    <3> QED BY <3>1, <3>2, <3>3
  <2> QED BY <1>1, <2>1, <2>2
<1>3. TableType
  BY DEF IInv, TypeOK, TableType
<1>4. /\ EverythingKept'
      /\ \A c \in Bridges, p \in Places :
           c # b \/ p \notin {v, a, "video_fd", "audio_fd"} => held'[c][p] = held[c][p]
      /\ held'[b]["audio_fd"] = NoFd
      /\ v # None => held'[b]["video_fd"] = NoFd
      /\ held[b]["video_fd"] = NoFd => held'[b]["video_fd"] = NoFd
  BY <1>1, <1>2, <1>3, SwapOutForgetsNothing DEF LeakInv
<1>5. /\ \A c \in Bridges : c # b => pump'[c] = pump[c] /\ stopTask'[c] = stopTask[c]
      /\ pump'[b] = pump[b] \/ (PumpClose(b) /\ pump[b] = "ending" /\ pump'[b] = "ended")
      /\ writer' = writer
  BY DEF GtkClose, GapClose, PumpClose, StopClose, SwapOut, IInv, TypeOK
<1>6. \A c \in Bridges, p \in Own \cup Ffmpegs \cup Dups : held'[c][p] = held[c][p]
  <2>1. (Own \cup Ffmpegs \cup Dups) \subseteq Places /\ v \notin Own \cup Ffmpegs \cup Dups
        /\ a \notin Own \cup Ffmpegs \cup Dups
        /\ {"video_fd", "audio_fd"} \cap (Own \cup Ffmpegs \cup Dups) = {}
    BY <1>1, PlacesApart, NoneAssumption DEF GtkLocals, LoopLocals, Fields
  <2> QED BY <1>4, <2>1
<1>7. LocalsInTime'
  <2>1. \A c \in Bridges : pump'[c] = pump[c] \/ (pump[c] = "ending" /\ pump'[c] = "ended")
    BY <1>5
  <2>2. \A c \in Bridges, p \in Own \cup Ffmpegs : held'[c][p] = held[c][p]
    BY <1>6
  <2>3. {"ff_audio", "ff_out"} \subseteq Ffmpegs /\ {"new_audio", "new_read"} \subseteq Own
    BY DEF Ffmpegs, Own
  <2> QED BY <2>1, <2>2, <2>3 DEF LeakInv, LocalsInTime, SetUpInTime, Holds
<1>8. DupsInTime'
  BY <1>5, <1>6 DEF LeakInv, DupsInTime, Holds
<1>9. ClosersInTime'
  <2> SUFFICES ASSUME NEW c \in Bridges
               PROVE  /\ stopTask'[c] # "swapped" => \A p \in GtkLocals : held'[c][p] = NoFd
                      /\ pump'[c] = "ended" => held'[c]["video_fd"] = NoFd /\ held'[c]["audio_fd"] = NoFd
                      /\ stopTask'[c] = "done" =>
                           held'[c]["read_fd"] = NoFd /\ \A p \in LoopLocals : held'[c][p] = NoFd
    BY DEF ClosersInTime, Holds
  <2>1. CASE c # b
    <3>1. \A p \in Places : held'[c][p] = held[c][p]
      BY <1>4, <2>1
    <3>2. GtkLocals \subseteq Places /\ LoopLocals \subseteq Places /\ Fields \subseteq Places
      BY PlacesApart
    <3> QED BY <1>5, <2>1, <3>1, <3>2 DEF LeakInv, ClosersInTime, Holds, Fields
  <2>2. CASE c = b
    <3>1. stopTask'[b] # "done"
      BY DEF GtkClose, GapClose, PumpClose, StopClose, IInv, TypeOK, StopOrder
    <3>2. pump'[b] = "ended" => held'[b]["video_fd"] = NoFd /\ held'[b]["audio_fd"] = NoFd
      <4>1. CASE pump[b] = "ended"
        BY <1>4, <4>1 DEF LeakInv, ClosersInTime, Holds
      <4>2. CASE pump[b] # "ended"
        <5>1. pump'[b] = "ended" => v = "loop_v"
          BY <1>1, <4>2 DEF GtkClose, GapClose
        <5>2. "loop_v" # None
          BY NoneAssumption DEF Places, LoopLocals
        <5> QED BY <1>4, <5>1, <5>2
      <4> QED BY <4>1, <4>2
    <3>3. stopTask'[b] # "swapped" => \A p \in GtkLocals : held'[b][p] = NoFd
      <4>1. CASE GtkClose(b)
        BY <4>1 DEF GtkClose, IInv, TypeOK
      <4>2. CASE ~GtkClose(b)
        <5>1. \A p \in GtkLocals : held'[b][p] = held[b][p]
          <6>1. GtkLocals \subseteq Places
                /\ \A p \in GtkLocals : p \notin {v, a, "video_fd", "audio_fd"}
            BY <1>1, <4>2, PlacesApart, NoneAssumption DEF GtkLocals, LoopLocals, Fields
          <6> QED BY <1>4, <6>1
        <5>2. stopTask'[b] # "swapped" => \A p \in GtkLocals : ~Holds(b, p)
          BY <4>2 DEF GapClose, PumpClose, StopClose, LeakInv, ClosersInTime
        <5> QED BY <5>1, <5>2 DEF Holds
      <4> QED BY <4>1, <4>2
    <3> QED BY <2>2, <3>1, <3>2, <3>3
  <2> QED BY <2>1, <2>2
<1> QED BY <1>4, <1>7, <1>8, <1>9 DEF LeakInv

(* Closing more, with nothing else changed, keeps what is said of places.  *)
LEMMA EmptierIsInTime ==
  ASSUME LeakInv, \A c \in Bridges, p \in Places : ~Holds(c, p) => held'[c][p] = NoFd
  PROVE  /\ UNCHANGED pump => LocalsInTime'
         /\ UNCHANGED <<pump, stopTask>> => ClosersInTime'
         /\ UNCHANGED writer => DupsInTime'
<1>1. /\ {"ff_audio", "ff_out", "new_audio", "new_read", "video_fd", "audio_fd", "read_fd"} \subseteq Places
      /\ Own \subseteq Places /\ Ffmpegs \subseteq Places /\ Dups \subseteq Places
      /\ GtkLocals \subseteq Places /\ LoopLocals \subseteq Places
  BY DEF Places, Own, Ffmpegs, Fields
<1>2. UNCHANGED pump => LocalsInTime'
  BY <1>1 DEF LeakInv, LocalsInTime, SetUpInTime, Holds
<1>3. UNCHANGED <<pump, stopTask>> => ClosersInTime'
  BY <1>1 DEF LeakInv, ClosersInTime, Holds
<1>4. UNCHANGED writer => DupsInTime'
  BY <1>1 DEF LeakInv, DupsInTime, Holds
<1> QED BY <1>2, <1>3, <1>4

(* What is closed is empty; the rest is as it was.                         *)
LEMMA ClosesKeepLeakInv ==
  ASSUME IInv, LeakInv, NEW b \in Bridges,
         \/ \E p \in GtkLocals \cup LoopLocals : CloseSwapped(b, p)
         \/ MuxFails(b) \/ MuxCancelled(b) \/ StopCloseRead(b)
         \/ \E w \in Writers : WriteEnd(b, w)
  PROVE  LeakInv'
<1>0. TableType /\ EverythingKept
  BY DEF IInv, TypeOK, TableType, LeakInv
<1>a. ASSUME NEW P \in SUBSET Places, CloseAll(b, P)
      PROVE  /\ EverythingKept'
             /\ \A p \in P : held'[b][p] = NoFd
             /\ \A c \in Bridges, p \in Places : c # b \/ p \notin P => held'[c][p] = held[c][p]
             /\ \A c \in Bridges, p \in Places : ~Holds(c, p) => held'[c][p] = NoFd
  <2>1. /\ EverythingKept'
        /\ \A c \in Bridges, p \in Places : c # b \/ p \notin P => held'[c][p] = held[c][p]
        /\ \A p \in P : held'[b][p] = NoFd
    BY <1>0, <1>a, CloseAllForgetsNothing
  <2> QED BY <2>1 DEF Holds
<1>1. CASE \E p \in GtkLocals \cup LoopLocals : CloseSwapped(b, p)
  <2>1. PICK p \in GtkLocals \cup LoopLocals : CloseSwapped(b, p)
    BY <1>1
  <2>2. {p} \in SUBSET Places /\ CloseAll(b, {p})
    BY <2>1, PlacesApart DEF CloseSwapped
  <2>3. EverythingKept' /\ \A c \in Bridges, q \in Places : ~Holds(c, q) => held'[c][q] = NoFd
    BY <1>a, <2>2
  <2>4. UNCHANGED <<pump, stopTask, writer>>
    BY <2>1 DEF CloseSwapped
  <2> QED BY <2>3, <2>4, EmptierIsInTime DEF LeakInv
<1>2. CASE MuxFails(b) \/ MuxCancelled(b)
  <2>1. Own \cup Ffmpegs \in SUBSET Places /\ CloseAll(b, Own \cup Ffmpegs)
    BY <1>2, PlacesApart DEF MuxFails, MuxCancelled, UnwindCloses
  <2>2. /\ EverythingKept'
        /\ \A p \in Own \cup Ffmpegs : held'[b][p] = NoFd
        /\ \A c \in Bridges, p \in Places : c # b => held'[c][p] = held[c][p]
        /\ \A c \in Bridges, p \in Places : ~Holds(c, p) => held'[c][p] = NoFd
    BY <1>a, <2>1
  <2>3. /\ UNCHANGED <<stopTask, writer>>
        /\ \A c \in Bridges : c # b => pump'[c] = pump[c]
        /\ pump'[b] \in {"rawpipe", "ending"}
    BY <1>2 DEF MuxFails, MuxCancelled, IInv, TypeOK
  <2>4. LocalsInTime'
    <3>1. Own \subseteq Places /\ Ffmpegs \subseteq Places /\ {"ff_audio", "ff_out"} \subseteq Ffmpegs
          /\ {"new_audio", "new_read"} \subseteq Own
      BY DEF Places, Own, Ffmpegs
    <3> QED BY <2>2, <2>3, <3>1 DEF LeakInv, LocalsInTime, SetUpInTime, Holds
  <2>5. ClosersInTime'
    <3>1. {"video_fd", "audio_fd", "read_fd"} \subseteq Places
          /\ GtkLocals \subseteq Places /\ LoopLocals \subseteq Places
      BY DEF Places, Fields
    <3>2. \A c \in Bridges : pump'[c] = "ended" => pump[c] = "ended"
      BY <2>3
    <3> QED BY <2>2, <2>3, <3>1, <3>2 DEF LeakInv, ClosersInTime, Holds
  <2> QED BY <2>2, <2>3, <2>4, <2>5, EmptierIsInTime DEF LeakInv
<1>3. CASE StopCloseRead(b)
  <2>1. {"read_fd"} \in SUBSET Places /\ CloseAll(b, {"read_fd"})
    BY <1>3 DEF StopCloseRead, StopCloses, Places, Fields
  <2>2. /\ EverythingKept' /\ held'[b]["read_fd"] = NoFd
        /\ \A c \in Bridges, p \in Places : ~Holds(c, p) => held'[c][p] = NoFd
    BY <1>a, <2>1
  <2>3. UNCHANGED <<pump, writer>> /\ stopTask[b] = "cancelled" /\ stopTask'[b] = "done"
        /\ \A c \in Bridges : c # b => stopTask'[c] = stopTask[c]
    BY <1>3 DEF StopCloseRead, IInv, TypeOK
  <2>4. \A p \in LoopLocals : ~Holds(b, p)
    BY <1>3 DEF StopCloseRead, LoopIdle
  <2>5. ClosersInTime'
    <3>1. {"video_fd", "audio_fd", "read_fd"} \subseteq Places
          /\ GtkLocals \subseteq Places /\ LoopLocals \subseteq Places
      BY DEF Places, Fields
    <3> QED BY <2>2, <2>3, <2>4, <3>1 DEF LeakInv, ClosersInTime, Holds
  <2> QED BY <2>2, <2>3, <2>5, EmptierIsInTime DEF LeakInv
<1>4. CASE \E w \in Writers : WriteEnd(b, w)
  <2>1. PICK w \in Writers : WriteEnd(b, w)
    BY <1>4
  <2>2. {DupOf[w]} \in SUBSET Places /\ CloseAll(b, {DupOf[w]})
    BY <2>1, FieldsArePlaces DEF WriteEnd
  <2>3. /\ EverythingKept' /\ held'[b][DupOf[w]] = NoFd
        /\ \A c \in Bridges, p \in Places : ~Holds(c, p) => held'[c][p] = NoFd
    BY <1>a, <2>2
  <2>4. /\ UNCHANGED <<pump, stopTask>>
        /\ \A c \in Bridges, x \in Writers : c # b \/ x # w => writer'[c][x] = writer[c][x]
    BY <2>1 DEF WriteEnd, IInv, TypeOK
  <2>5. DupsInTime'
    <3> SUFFICES ASSUME NEW c \in Bridges, NEW p \in Dups, held'[c][p] # NoFd
                 PROVE  \E x \in Writers : p = DupOf[x] /\ writer'[c][x] = "writing"
      BY DEF DupsInTime, Holds
    <3>1. Holds(c, p)
      BY <2>3, PlacesApart
    <3>2. PICK x \in Writers : p = DupOf[x] /\ writer[c][x] = "writing"
      BY <3>1 DEF LeakInv, DupsInTime
    <3>3. c # b \/ x # w
      BY <2>3, <3>2
    <3> QED BY <2>4, <3>2, <3>3
  <2> QED BY <2>3, <2>4, <2>5, EmptierIsInTime DEF LeakInv
<1> QED BY <1>1, <1>2, <1>3, <1>4

(* Each pipe() of the set-up fills two locals that are empty.              *)
LEMMA OpensKeepLeakInv ==
  ASSUME IInv, LeakInv, NEW b \in Bridges, MuxPipe(b) \/ RawPipe(b)
  PROVE  LeakInv'
<1>1. PICK r, w :
        /\ OpenPipe(b, r, w)
        /\ \/ r = "ff_video" /\ w = "new_video" /\ pump[b] = "pipe1" /\ pump'[b] = "pipe2"
           \/ r = "ff_audio" /\ w = "new_audio" /\ pump[b] = "pipe2" /\ pump'[b] = "pipe3"
           \/ r = "new_read" /\ w = "ff_out" /\ pump[b] = "pipe3" /\ pump'[b] = "spawn"
           \/ r = "new_read" /\ w = "new_video" /\ pump[b] = "rawpipe" /\ pump'[b] = "rawpublish"
  <2>1. CASE MuxPipe(b)
    BY <2>1 DEF MuxPipe, IInv, TypeOK
  <2>2. CASE RawPipe(b)
    BY <2>2 DEF RawPipe, IInv, TypeOK
  <2> QED BY <2>1, <2>2
<1>2. r \in Own \cup Ffmpegs /\ w \in Own \cup Ffmpegs /\ r # w /\ r \in Places /\ w \in Places
  BY <1>1 DEF Own, Ffmpegs, Places
<1>3. ~Holds(b, r) /\ ~Holds(b, w)
  BY <1>1 DEF LeakInv, LocalsInTime, SetUpInTime, Own, Ffmpegs
<1>4. /\ EverythingKept'
      /\ \A c \in Bridges, p \in Places : c # b \/ (p # r /\ p # w) => held'[c][p] = held[c][p]
  <2>1. TableType /\ EverythingKept
    BY DEF IInv, TypeOK, TableType, LeakInv
  <2> QED BY <1>1, <1>2, <1>3, <2>1, OpenPipeForgetsNothing
<1>5. /\ UNCHANGED <<stopTask, writer>>
      /\ \A c \in Bridges : c # b => pump'[c] = pump[c]
  BY DEF MuxPipe, RawPipe, IInv, TypeOK
<1>6. \A c \in Bridges, p \in Places \ (Own \cup Ffmpegs) : held'[c][p] = held[c][p]
  BY <1>2, <1>4
<1>7. LocalsInTime'
  <2> SUFFICES ASSUME NEW c \in Bridges
               PROVE  SetUpInTime(c)'
    BY DEF LocalsInTime
  <2>1. CASE c # b
    <3>1. \A p \in Own \cup Ffmpegs : held'[c][p] = held[c][p]
      BY <1>4, <2>1, PlacesApart
    <3>2. {"ff_audio", "ff_out", "new_audio", "new_read"} \subseteq Own \cup Ffmpegs
      BY DEF Own, Ffmpegs
    <3> QED BY <1>5, <2>1, <3>1, <3>2 DEF LeakInv, LocalsInTime, SetUpInTime, Holds
  <2>2. CASE c = b
    <3>1. Own \subseteq Places /\ Ffmpegs \subseteq Places
          /\ {"ff_audio", "ff_out", "new_audio", "new_read"} \subseteq Places
          /\ {"ff_audio", "ff_out"} \subseteq Ffmpegs /\ {"new_audio", "new_read"} \subseteq Own
          /\ "new_video" \notin Ffmpegs /\ "new_read" \notin Ffmpegs
      BY DEF Places, Own, Ffmpegs
    <3> QED BY <1>1, <1>4, <2>2, <3>1 DEF LeakInv, LocalsInTime, SetUpInTime, Holds
  <2> QED BY <2>1, <2>2
<1>8. Fields \cup Dups \cup GtkLocals \cup LoopLocals \subseteq Places \ (Own \cup Ffmpegs)
  BY PlacesApart
<1>9. DupsInTime'
  BY <1>5, <1>6, <1>8 DEF LeakInv, DupsInTime, Holds
<1>10. ClosersInTime'
  <2>1. \A c \in Bridges : pump'[c] = "ended" => pump[c] = "ended"
    BY <1>1, <1>5
  <2> QED BY <1>5, <1>6, <1>8, <2>1 DEF LeakInv, ClosersInTime, Holds, Fields
<1> QED BY <1>4, <1>7, <1>9, <1>10 DEF LeakInv

(* Publishing empties all the locals of the set-up.                        *)
LEMMA PublishKeepsLeakInv ==
  ASSUME IInv, LeakInv, NEW b \in Bridges, MuxStarted(b) \/ RawPublish(b)
  PROVE  LeakInv'
<1>1. PICK C \in SUBSET Ffmpegs : Publish(b, C) /\ (C = Ffmpegs \/ pump[b] = "rawpublish")
  BY DEF MuxStarted, RawPublish
<1>2. /\ pump[b] \in {"spawn", "rawpublish"} /\ \A p \in Fields : ~Holds(b, p)
  BY DEF MuxStarted, RawPublish, IInv, PublishedOnce, SettingUpStates
<1>3. /\ EverythingKept'
      /\ \A c \in Bridges, p \in Places :
           c # b \/ p \notin Fields \cup Own \cup C => held'[c][p] = held[c][p]
      /\ \A p \in Own \cup C : held'[b][p] = NoFd
  <2>1. TableType /\ EverythingKept
    BY DEF IInv, TypeOK, TableType, LeakInv
  <2> QED BY <1>1, <1>2, <2>1, PublishForgetsNothing
<1>4. /\ UNCHANGED <<stopTask, writer>> /\ pump'[b] = "run"
      /\ \A c \in Bridges : c # b => pump'[c] = pump[c]
  BY <1>1 DEF MuxStarted, RawPublish, Publish, IInv, TypeOK
<1>5. \A p \in Own \cup Ffmpegs : held'[b][p] = NoFd
  <2>1. CASE C = Ffmpegs
    BY <1>3, <2>1
  <2>2. CASE pump[b] = "rawpublish"
    <3>1. \A p \in Ffmpegs : held[b][p] = NoFd
      BY <2>2 DEF LeakInv, LocalsInTime, SetUpInTime, Holds
    <3>2. \A p \in Ffmpegs : p \in Places /\ p \notin Fields \cup Own
      BY PlacesApart
    <3> QED BY <1>3, <3>1, <3>2
  <2> QED BY <1>1, <2>1, <2>2
<1>6. LocalsInTime'
  <2>1. Own \subseteq Places /\ Ffmpegs \subseteq Places
        /\ {"ff_audio", "ff_out"} \subseteq Ffmpegs /\ {"new_audio", "new_read"} \subseteq Own
    BY DEF Places, Own, Ffmpegs
  <2> QED BY <1>3, <1>4, <1>5, <2>1 DEF LeakInv, LocalsInTime, SetUpInTime, Holds
<1>7. \A c \in Bridges, p \in Dups \cup GtkLocals \cup LoopLocals : held'[c][p] = held[c][p]
  <2>1. \A p \in Dups \cup GtkLocals \cup LoopLocals : p \in Places /\ p \notin Fields \cup Own \cup C
    BY PlacesApart
  <2> QED BY <1>3, <2>1
<1>8. DupsInTime'
  BY <1>4, <1>7 DEF LeakInv, DupsInTime, Holds
<1>9. ClosersInTime'
  <2>1. stopTask[b] # "done"
    BY <1>2 DEF IInv, StopOrder
  <2>2. \A c \in Bridges, p \in Fields : c # b => held'[c][p] = held[c][p]
    BY <1>3, PlacesApart
  <2>3. {"video_fd", "audio_fd", "read_fd"} = Fields
    BY DEF Fields
  <2> QED BY <1>4, <1>7, <2>1, <2>2, <2>3 DEF LeakInv, ClosersInTime, Holds
<1> QED BY <1>3, <1>6, <1>8, <1>9 DEF LeakInv

(* A writer's dup fills a place that is empty, and is being written to.    *)
LEMMA WriteDupKeepsLeakInv ==
  ASSUME IInv, LeakInv, NEW b \in Bridges, NEW w \in Writers, WriteDup(b, w)
  PROVE  LeakInv'
<1>1. DupOf[w] \in Dups /\ DupOf[w] \in Places /\ \A x \in Writers : x # w => DupOf[x] # DupOf[w]
  BY FieldsArePlaces, WritersAssumption DEF DupOf
<1>2. ~Holds(b, DupOf[w])
  BY <1>1 DEF WriteDup, LeakInv, DupsInTime
<1>3. /\ EverythingKept'
      /\ \A c \in Bridges, p \in Places : c # b \/ p # DupOf[w] => held'[c][p] = held[c][p]
  <2>1. TableType /\ EverythingKept
    BY DEF IInv, TypeOK, TableType, LeakInv
  <2> QED BY <1>2, <2>1, WriteDupForgetsNothing
<1>4. /\ UNCHANGED <<pump, stopTask>> /\ writer'[b][w] = "writing"
      /\ \A c \in Bridges, x \in Writers : c # b \/ x # w => writer'[c][x] = writer[c][x]
  BY DEF WriteDup, IInv, TypeOK
<1>5. \A c \in Bridges, p \in Places \ Dups : held'[c][p] = held[c][p]
  BY <1>1, <1>3
<1>6. /\ Fields \cup Own \cup Ffmpegs \cup GtkLocals \cup LoopLocals \subseteq Places \ Dups
      /\ {"ff_audio", "ff_out"} \subseteq Ffmpegs /\ {"new_audio", "new_read"} \subseteq Own
      /\ {"video_fd", "audio_fd", "read_fd"} = Fields
  <2>1. Fields \cup Own \cup Ffmpegs \cup GtkLocals \cup LoopLocals \subseteq Places \ Dups
    BY PlacesApart
  <2> QED BY <2>1 DEF Ffmpegs, Own, Fields
<1>7. LocalsInTime' /\ ClosersInTime'
  <2>1. \A c \in Bridges, p \in Fields \cup Own \cup Ffmpegs \cup GtkLocals \cup LoopLocals :
          held'[c][p] = held[c][p]
    BY <1>5, <1>6
  <2>2. LocalsInTime'
    BY <1>4, <1>6, <2>1 DEF LeakInv, LocalsInTime, SetUpInTime, Holds
  <2>3. ClosersInTime'
    BY <1>4, <1>6, <2>1 DEF LeakInv, ClosersInTime, Holds
  <2> QED BY <2>2, <2>3
<1>8. DupsInTime'
  <2> SUFFICES ASSUME NEW c \in Bridges, NEW p \in Dups, held'[c][p] # NoFd
               PROVE  \E x \in Writers : p = DupOf[x] /\ writer'[c][x] = "writing"
    BY DEF DupsInTime, Holds
  <2>1. CASE c = b /\ p = DupOf[w]
    BY <1>4, <2>1
  <2>2. CASE c # b \/ p # DupOf[w]
    <3>1. Holds(c, p)
      BY <1>3, <2>2, PlacesApart DEF Holds
    <3>2. PICK x \in Writers : p = DupOf[x] /\ writer[c][x] = "writing"
      BY <3>1 DEF LeakInv, DupsInTime
    <3> QED BY <1>4, <2>2, <3>2
  <2> QED BY <2>1, <2>2
<1> QED BY <1>3, <1>7, <1>8 DEF LeakInv

(* No step forgets an open number.                                         *)
LEMMA StepLeakInv == IInv /\ LeakInv /\ [Next]_vars => LeakInv'
<1> SUFFICES ASSUME IInv, LeakInv, [Next]_vars PROVE LeakInv'
  OBVIOUS
<1>1. CASE UNCHANGED vars
  <2>1. UNCHANGED <<fdt, held>>
    BY <1>1 DEF vars
  <2> QED BY <1>1, <2>1, StillStepsKeepLeakInv
<1>2. ASSUME NEW s \in Slots, StopStream(s) PROVE LeakInv'
  <2>1. UNCHANGED <<fdt, held>>
    BY <1>2 DEF StopStream
  <2> QED BY <1>2, <2>1, StillStepsKeepLeakInv
<1>3. ASSUME NEW b \in Bridges,
             StartBridge(b) \/ OnReady(b) \/ StopCancel(b) \/ StopAwait(b) \/ SetUp(b)
               \/ RawFails(b) \/ PumpEnds(b)
      PROVE  LeakInv'
  <2>1. UNCHANGED <<fdt, held>>
    BY <1>3 DEF StartBridge, OnReady, StopCancel, StopAwait, SetUp, RawFails, PumpEnds
  <2> QED BY <1>3, <2>1, StillStepsKeepLeakInv
<1>4. ASSUME NEW b \in Bridges, GapClose(b) PROVE LeakInv'
  BY <1>4, ClosersKeepLeakInv
<1>5. ASSUME NEW b \in Bridges, Stopping(b) PROVE LeakInv'
  BY <1>3, <1>5, ClosersKeepLeakInv, ClosesKeepLeakInv DEF Stopping
<1>6. ASSUME NEW b \in Bridges, Pumping(b) PROVE LeakInv'
  BY <1>3, <1>6, ClosersKeepLeakInv, ClosesKeepLeakInv, OpensKeepLeakInv, PublishKeepsLeakInv
     DEF Pumping, SettingUp
<1>7. ASSUME NEW b \in Bridges, NEW w \in Writers, Writing(b, w) PROVE LeakInv'
  <2>1. CASE WriteLock(b, w) \/ DupFails(b, w)
    <3>1. UNCHANGED <<fdt, held>>
      BY <2>1 DEF WriteLock, DupFails
    <3> QED BY <2>1, <3>1, StillStepsKeepLeakInv
  <2>2. CASE WriteDup(b, w)
    BY <2>2, WriteDupKeepsLeakInv
  <2>3. CASE WriteEnd(b, w)
    BY <2>3, ClosesKeepLeakInv
  <2> QED BY <1>7, <2>1, <2>2, <2>3 DEF Writing
<1> QED BY <1>1, <1>2, <1>3, <1>4, <1>5, <1>6, <1>7 DEF Next

(* Nothing is open at the start.                                           *)
LEMMA InitLeakInv == Init => LeakInv
<1> SUFFICES ASSUME Init PROVE LeakInv
  OBVIOUS
<1>1. \A b \in Bridges, p \in Places : ~Holds(b, p)
  BY DEF Init, Holds
<1>2. EverythingKept
  BY DEF Init, EverythingKept
<1>3. LocalsInTime /\ DupsInTime
  BY <1>1 DEF LocalsInTime, SetUpInTime, DupsInTime, Places, Own, Ffmpegs
<1>4. ClosersInTime
  BY <1>1 DEF ClosersInTime, Places, Fields
<1> QED BY <1>2, <1>3, <1>4 DEF LeakInv

(* The inductive invariant holds in every reachable state: the types, one  *)
(* holder for every open number, reads under the lock, one publication.    *)
THEOREM Inductive == Spec => []IInv
  BY InitIInv, StepIInv, PTL DEF Spec

(* The variables keep their types.                                         *)
THEOREM TypeCorrect == Spec => []TypeOK
<1>1. IInv => TypeOK
  BY DEF IInv
<1> QED BY <1>1, Inductive, PTL

(* Whatever closes the fields while a write is in flight, a write reaches  *)
(* the pipe end it is for: any number of bridges, writers and descriptors. *)
THEOREM WritesOwn == Spec => []WritesOwnPipe
<1>1. IInv => WritesOwnPipe
  BY FieldsArePlaces DEF IInv, LockedReads, OwnsWhatItHolds, WritesOwnPipe
<1> QED BY <1>1, Inductive, PTL

(* What mpv reads is the read end of the bridge its slot shows, and open:  *)
(* the number is never closed or handed on under it.                       *)
THEOREM PlaysOwn == Spec => []PlaysOwnPipe
<1>1. IInv => PlaysOwnPipe
  <2> SUFFICES ASSUME IInv, NEW s \in Slots, playing[s] # NoFd
               PROVE  cur[s] # None /\ fdt[playing[s]] = <<cur[s], "out">>
    BY DEF PlaysOwnPipe
  <2>1. cur[s] \in Bridges /\ cur[s] # None /\ playing[s] = held[cur[s]]["read_fd"]
    BY DEF IInv, TypeOK, PlaysCurrent
  <2>2. "read_fd" \in Places /\ EndOf("read_fd") = "out"
    BY DEF Places, Fields, EndOf
  <2> QED BY <2>1, <2>2 DEF IInv, OwnsWhatItHolds, Holds
<1> QED BY <1>1, Inductive, PTL

(* No open number is ever forgotten: somebody who will close it keeps it.  *)
THEOREM NothingForgotten == Spec => []LeakInv
  BY InitIInv, StepIInv, InitLeakInv, StepLeakInv, PTL DEF Spec

(* When stop() is over and the bridge's last write has ended, all of its   *)
(* descriptors are closed, whichever step of the set-up the stop met.      *)
THEOREM StopLeaksNothing == Spec => []StoppedLeaksNothing
<1>1. IInv /\ LeakInv => StoppedLeaksNothing
  <2> SUFFICES ASSUME IInv, LeakInv, NEW b \in Bridges, stopTask[b] = "done",
                      \A w \in Writers : writer[b][w] # "writing",
                      NEW f \in Fds, fdt[f] # None, fdt[f][1] = b
               PROVE  FALSE
    BY DEF StoppedLeaksNothing, OpenOf
  <2>1. PICK c \in Bridges, p \in Places : held[c][p] = f
    BY DEF LeakInv, EverythingKept
  <2>2. Holds(c, p) /\ fdt[f] = <<c, EndOf(p)>>
    BY <2>1, NoFdAssumption DEF Holds, IInv, OwnsWhatItHolds
  <2>3. c = b
    BY <2>2
  <2>4. pump[b] = "ended"
    BY DEF IInv, StopOrder
  <2>5. \A q \in Fields \cup GtkLocals \cup LoopLocals : ~Holds(b, q)
    BY <2>4 DEF LeakInv, ClosersInTime, Fields
  <2>6. \A q \in Own \cup Ffmpegs \cup Dups : ~Holds(b, q)
    BY <2>4 DEF LeakInv, LocalsInTime, SetUpInTime, DupsInTime
  <2>7. p \in Fields \cup GtkLocals \cup LoopLocals \/ p \in Own \cup Ffmpegs \cup Dups
    BY DEF Places
  <2> QED BY <2>2, <2>3, <2>5, <2>6, <2>7
<1> QED BY <1>1, Inductive, NothingForgotten, PTL

============================================================================
