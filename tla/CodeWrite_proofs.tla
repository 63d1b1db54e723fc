-------------------------- MODULE CodeWrite_proofs --------------------------
(* While code is written no one runs on the page that is written, and who  *)
(* runs finds every entry whole, whatever the pages and the functions are. *)
(* The invariant says who has stopped the world and holds the system       *)
(* monitor at every step of a write, that a piece of a write lies in one   *)
(* page and in the function's entry, and how far the write has come.       *)
EXTENDS CodeWrite, TLAPS

(* A writer has stopped the world in the first set of steps, and holds the *)
(* system monitor in the second.                                           *)
Stopped == {"suspend", "loop", "protect", "copy", "resume", "panics", "start", "unwinds"}
Holding == {"loop", "protect", "copy", "resume", "panics"}
Writing == {"stop", "suspend", "loop", "protect", "copy"}
Places == Stopped \cup {"test", "stop", "failed"}

WriteTypes ==
  /\ prot \in [Pages -> {"rx", "rw"}]
  /\ gor \in [Goroutines -> {"runs", "stopped", "syscall", "returns"}]
  /\ at \in [Writers -> Places] /\ lockKnown \in BOOLEAN
  /\ begin \in [Writers -> Nat] /\ copied \in [Writers -> Nat] /\ chunk \in [Writers -> Nat]

WorldIsStopped ==
  /\ \A w \in Writers : at[w] \in Stopped <=> world = w
  /\ lockKnown => \A w \in Writers : at[w] \in Holding <=> monitor = w
  /\ ~lockKnown => monitor \notin Writers
  /\ world # None => world \in Writers /\ \A g \in Goroutines : gor[g] # "runs"

(* The piece that is copied: within the entry and within one page. *)
InEntry(w) == Target[w] <= begin[w] /\ begin[w] <= End(w)
Piece(w) ==
  /\ begin[w] < End(w) /\ chunk[w] > 0
  /\ begin[w] + chunk[w] <= End(w)
  /\ begin[w] + chunk[w] <= PageOf(begin[w]) + PageSize
PiecesFit ==
  \A w \in Writers :
    /\ at[w] \in Writing => InEntry(w)
    /\ at[w] \in {"protect", "copy"} => Piece(w) /\ copied[w] <= chunk[w]

OnePageIsOpen ==
  /\ \A w \in Writers : at[w] = "copy" => prot[PageOf(begin[w])] = "rw"
  /\ \A p \in Pages \ left :
       prot[p] = "rx" \/ \E w \in Writers : at[w] = "copy" /\ p = PageOf(begin[w])

WriteInv == WriteTypes /\ WorldIsStopped /\ PiecesFit /\ OnePageIsOpen

-----------------------------------------------------------------------------
(* Pages.                                                                  *)

LEMMA PageBounds ==
  ASSUME NEW a \in Nat
  PROVE  /\ PageOf(a) \in Nat /\ a \div PageSize \in Nat
         /\ PageOf(a) <= a /\ a < PageOf(a) + PageSize
<1>1. a \div PageSize \in Nat
  BY CodeAssumption, SMTT(60)
<1>2. PageOf(a) \in Nat
  BY <1>1, CodeAssumption, SMTT(60) DEF PageOf
<1>3. PageOf(a) <= a
  BY CodeAssumption, SMTT(60) DEF PageOf
<1>4. a < PageOf(a) + PageSize
  BY CodeAssumption, SMTT(60) DEF PageOf
<1> QED BY <1>1, <1>2, <1>3, <1>4

LEMMA NextMultiple ==
  ASSUME NEW q \in Nat, NEW r \in Nat, q < r
  PROVE  PageSize * q + PageSize <= PageSize * r
BY CodeAssumption, SMTT(60)

LEMMA PageOrder ==
  ASSUME NEW a \in Nat, NEW b \in Nat
  PROVE  \/ PageOf(a) = PageOf(b)
         \/ PageOf(a) + PageSize <= PageOf(b)
         \/ PageOf(b) + PageSize <= PageOf(a)
<1>1. a \div PageSize \in Nat /\ b \div PageSize \in Nat
  BY PageBounds
<1>2. CASE a \div PageSize = b \div PageSize
  BY <1>2 DEF PageOf
<1>3. CASE a \div PageSize < b \div PageSize
  BY <1>1, <1>3, NextMultiple DEF PageOf
<1>4. CASE b \div PageSize < a \div PageSize
  BY <1>1, <1>4, NextMultiple DEF PageOf
<1> QED BY <1>1, <1>2, <1>3, <1>4

LEMMA SamePage ==
  ASSUME NEW a \in Nat, NEW b \in Nat, PageOf(a) <= b, b < PageOf(a) + PageSize
  PROVE  PageOf(b) = PageOf(a)
<1>1. PageOf(a) \in Nat /\ PageOf(b) \in Nat /\ PageSize \in Nat
  BY PageBounds, CodeAssumption
<1>2. PageOf(b) <= b /\ b < PageOf(b) + PageSize
  BY PageBounds
<1>3. \/ PageOf(a) = PageOf(b)
      \/ PageOf(a) + PageSize <= PageOf(b)
      \/ PageOf(b) + PageSize <= PageOf(a)
  BY PageOrder
<1> QED BY <1>1, <1>2, <1>3

(* The size that the loop chooses for the next piece. *)
LEMMA ChunkFits ==
  ASSUME NEW b \in Nat, NEW e \in Nat, b < e,
         NEW c, c = IF PageOf(b) < PageOf(e) THEN PageOf(b) + PageSize - b ELSE e - b
  PROVE  /\ c \in Nat /\ c > 0
         /\ b + c <= e /\ b + c <= PageOf(b) + PageSize
<1>1. PageOf(b) \in Nat /\ PageOf(e) \in Nat /\ PageSize \in Nat
  BY PageBounds, CodeAssumption
<1>2. b < PageOf(b) + PageSize /\ PageOf(e) <= e /\ e < PageOf(e) + PageSize
  BY PageBounds
<1>3. \/ PageOf(b) = PageOf(e)
      \/ PageOf(b) + PageSize <= PageOf(e)
      \/ PageOf(e) + PageSize <= PageOf(b)
  BY PageOrder
<1>4. CASE PageOf(b) < PageOf(e)
  BY <1>1, <1>2, <1>3, <1>4
<1>5. CASE ~(PageOf(b) < PageOf(e))
  BY <1>1, <1>2, <1>3, <1>5
<1> QED BY <1>4, <1>5

LEMMA EntryPages ==
  ASSUME WriteInv, NEW w \in Writers, at[w] = "copy"
  PROVE  /\ begin[w] \in Entry(w) /\ begin[w] \in Addresses /\ begin[w] \in Nat
         /\ PageOf(begin[w]) \in Pages /\ PageOf(begin[w]) \notin RuntimePages
<1>1. InEntry(w) /\ Piece(w) /\ begin[w] \in Nat /\ Target[w] \in Nat /\ Length[w] \in Nat
  BY CodeAssumption DEF WriteInv, PiecesFit, Writing, WriteTypes
<1>2. begin[w] \in Entry(w)
  BY <1>1 DEF InEntry, Piece, Entry, End
<1> QED BY <1>1, <1>2, CodeAssumption DEF Pages

(* Nobody runs on the open page. *)
LEMMA InvIsSafe == WriteInv => NobodyFaults
<1> SUFFICES ASSUME WriteInv PROVE NobodyFaults
  OBVIOUS
<1>1. (\A w \in Writers : at[w] # "copy") => \A p \in Pages \ left : prot[p] = "rx"
  BY DEF WriteInv, OnePageIsOpen
<1>2. \A p \in RuntimePages \ left : prot[p] = "rx"
  BY EntryPages, CodeAssumption DEF WriteInv, OnePageIsOpen
<1>3. Runs # {} => \A w \in Writers : at[w] # "copy"
  BY CodeAssumption DEF Runs, WriteInv, WorldIsStopped, Stopped
<1>4. monitor = "sysmon" /\ lockKnown => \A w \in Writers : at[w] # "copy"
  BY CodeAssumption DEF WriteInv, WorldIsStopped, Holding
<1>5. \A p \in Fetched \ left : prot[p] = "rx"
  BY <1>1, <1>2, <1>3, <1>4, CodeAssumption DEF Fetched
<1>6. ASSUME NEW w \in Writers, at[w] = "copy", copied[w] < chunk[w]
      PROVE  prot[PageOf(begin[w] + copied[w])] = "rw"
  <2>1. /\ begin[w] \in Nat /\ copied[w] \in Nat /\ chunk[w] \in Nat
        /\ begin[w] + chunk[w] <= PageOf(begin[w]) + PageSize
        /\ prot[PageOf(begin[w])] = "rw"
    BY <1>6 DEF WriteInv, WriteTypes, PiecesFit, Piece, OnePageIsOpen
  <2>2. /\ begin[w] + copied[w] \in Nat
        /\ PageOf(begin[w]) <= begin[w] + copied[w]
        /\ begin[w] + copied[w] < PageOf(begin[w]) + PageSize
    <3>1. PageOf(begin[w]) \in Nat /\ PageOf(begin[w]) <= begin[w] /\ PageSize \in Nat
      BY <2>1, PageBounds, CodeAssumption
    <3> QED BY <1>6, <2>1, <3>1
  <2> QED BY <2>1, <2>2, SamePage
<1> QED BY <1>5, <1>6 DEF NobodyFaults

-----------------------------------------------------------------------------
LEMMA WriteInit == Init => WriteInv
BY CodeAssumption
   DEF Init, WriteInv, WriteTypes, Places, Stopped, Holding, Writing, WorldIsStopped,
       PiecesFit, OnePageIsOpen

(* A step of one writer is the only change of the steps. *)
LEMMA OneWriter ==
  ASSUME WriteInv, NEW w \in Writers, NEW to \in Places, at' = [at EXCEPT ![w] = to]
  PROVE  /\ at' \in [Writers -> Places] /\ at'[w] = to
         /\ \A v \in Writers : v # w => at'[v] = at[v]
BY DEF WriteInv, WriteTypes

(* What a step of a writer inside the stopped world leaves as it is.       *)
LEMMA Alone ==
  ASSUME WriteInv, NEW w \in Writers, at[w] \in Stopped
  PROVE  /\ world = w /\ \A v \in Writers : v # w => at[v] \notin Stopped
         /\ at[w] # "copy" => \A p \in Pages \ left : prot[p] = "rx"
         /\ at[w] = "copy" => \A p \in Pages \ left : p # PageOf(begin[w]) => prot[p] = "rx"
<1>1. world = w /\ \A v \in Writers : v # w => at[v] \notin Stopped
  BY CodeAssumption DEF WriteInv, WorldIsStopped
<1>3. \A v \in Writers : v # w => at[v] # "copy"
  BY <1>1 DEF Stopped
<1> QED BY <1>1, <1>3 DEF WriteInv, OnePageIsOpen

(* Steps outside a write. *)
LEMMA StartsWrite ==
  ASSUME WriteInv, NEW w \in Writers, WriteWithSTW(w)
  PROVE  WriteInv'
<1>1. /\ at[w] = "test" /\ at' = [at EXCEPT ![w] = "stop"]
      /\ begin' = [begin EXCEPT ![w] = Target[w]]
      /\ UNCHANGED <<prot, left, lockKnown, gor, world, monitor, copied, chunk>>
  BY DEF WriteWithSTW, Goes, sync, code, job
<1>2. /\ at' \in [Writers -> Places] /\ at'[w] = "stop"
      /\ \A v \in Writers : v # w => at'[v] = at[v]
  BY <1>1, OneWriter DEF Places
<1>3. begin' \in [Writers -> Nat] /\ \A v \in Writers : v # w => begin'[v] = begin[v]
  BY <1>1, CodeAssumption DEF WriteInv, WriteTypes
<1>4. WriteTypes'
  BY <1>1, <1>2, <1>3 DEF WriteInv, WriteTypes
<1>5. WorldIsStopped'
  BY <1>1, <1>2 DEF WriteInv, WorldIsStopped, Stopped, Holding
<1>6. PiecesFit'
  <2>1. begin'[w] = Target[w]
    BY <1>1 DEF WriteInv, WriteTypes
  <2>2. InEntry(w)'
    BY <2>1, CodeAssumption DEF InEntry, End
  <2>3. ASSUME NEW v \in Writers, v # w
        PROVE  /\ (at[v] \in Writing)' => InEntry(v)'
               /\ (at[v] \in {"protect", "copy"})' => Piece(v)' /\ copied'[v] <= chunk'[v]
    BY <1>1, <1>2, <1>3, <2>3 DEF WriteInv, PiecesFit, InEntry, Piece, End
  <2> QED BY <1>2, <2>2, <2>3 DEF PiecesFit
<1>7. OnePageIsOpen'
  BY <1>1, <1>2, <1>3 DEF WriteInv, OnePageIsOpen
<1> QED BY <1>4, <1>5, <1>6, <1>7 DEF WriteInv

LEMMA StopsWorld ==
  ASSUME WriteInv, NEW w \in Writers, StopTheWorld(w)
  PROVE  WriteInv'
<1>1. /\ at[w] = "stop" /\ at' = [at EXCEPT ![w] = "suspend"]
      /\ world = None /\ world' = w
      /\ gor' = [g \in Goroutines |-> IF gor[g] = "runs" THEN "stopped" ELSE gor[g]]
      /\ UNCHANGED <<prot, left, lockKnown, monitor, begin, copied, chunk>>
  BY DEF StopTheWorld, Goes, code, loop, job
<1>2. /\ at' \in [Writers -> Places] /\ at'[w] = "suspend"
      /\ \A v \in Writers : v # w => at'[v] = at[v]
  BY <1>1, OneWriter DEF Places, Stopped
<1>3. /\ gor' \in [Goroutines -> {"runs", "stopped", "syscall", "returns"}]
      /\ \A g \in Goroutines : gor'[g] # "runs"
  BY <1>1 DEF WriteInv, WriteTypes
<1>4. WriteTypes'
  BY <1>1, <1>2, <1>3 DEF WriteInv, WriteTypes
<1>5. WorldIsStopped'
  <2>1. \A v \in Writers : at[v] \notin Stopped
    BY <1>1, CodeAssumption DEF WriteInv, WorldIsStopped
  <2> QED BY <1>1, <1>2, <1>3, <2>1 DEF WriteInv, WorldIsStopped, Stopped, Holding
<1>6. PiecesFit'
  BY <1>1, <1>2 DEF WriteInv, PiecesFit, Writing, InEntry, Piece, End
<1>7. OnePageIsOpen'
  BY <1>1, <1>2 DEF WriteInv, OnePageIsOpen
<1> QED BY <1>4, <1>5, <1>6, <1>7 DEF WriteInv

(* Steps of a write that change no page and no piece. *)
LEMMA SameCode ==
  ASSUME WriteInv, NEW w \in Writers, NEW to \in Places \ {"protect", "copy"},
         at' = [at EXCEPT ![w] = to], at[w] # "copy",
         to \in Writing => at[w] \in Writing,
         UNCHANGED <<prot, left, begin, copied, chunk>>
  PROVE  PiecesFit' /\ OnePageIsOpen'
<1>1. at'[w] = to /\ \A v \in Writers : v # w => at'[v] = at[v]
  BY OneWriter
<1>2. PiecesFit'
  BY <1>1 DEF WriteInv, PiecesFit, InEntry, Piece, End
<1>3. OnePageIsOpen'
  BY <1>1 DEF WriteInv, OnePageIsOpen
<1> QED BY <1>2, <1>3

LEMMA Suspends ==
  ASSUME WriteInv, NEW w \in Writers, SuspendSysmon(w)
  PROVE  WriteInv'
<1>1. /\ at[w] = "suspend" /\ at' = [at EXCEPT ![w] = "loop"]
      /\ \/ lockKnown /\ monitor = None /\ monitor' = w
         \/ ~lockKnown /\ monitor' = monitor
      /\ UNCHANGED <<prot, left, lockKnown, world, gor, begin, copied, chunk>>
  BY DEF SuspendSysmon, Goes, code, loop, job
<1>2. at' \in [Writers -> Places] /\ at'[w] = "loop" /\ \A v \in Writers : v # w => at'[v] = at[v]
  BY <1>1, OneWriter DEF Places, Stopped
<1>3. PiecesFit' /\ OnePageIsOpen'
  BY <1>1, SameCode DEF Places, Stopped, Writing
<1>4. WriteTypes'
  BY <1>1, <1>2 DEF WriteInv, WriteTypes
<1>5. WorldIsStopped'
  <2>1. lockKnown => \A v \in Writers : at[v] \notin Holding
    BY <1>1, CodeAssumption DEF WriteInv, WorldIsStopped
  <2> QED BY <1>1, <1>2, <2>1 DEF WriteInv, WorldIsStopped, Stopped, Holding
<1> QED BY <1>3, <1>4, <1>5 DEF WriteInv

LEMMA LoopIsLeft ==
  ASSUME WriteInv, NEW w \in Writers, LoopEnds(w) \/ Refused(w)
  PROVE  WriteInv'
<1>1. /\ at[w] \in {"loop", "protect"}
      /\ UNCHANGED <<prot, left, lockKnown, world, monitor, gor, begin, copied, chunk>>
      /\ at' = [at EXCEPT ![w] = "resume"] \/ at' = [at EXCEPT ![w] = "panics"]
  BY DEF LoopEnds, Refused, Goes, code, loop, sync, job
<1>2. /\ at' \in [Writers -> Places] /\ at'[w] \in {"resume", "panics"}
      /\ \A v \in Writers : v # w => at'[v] = at[v]
  BY <1>1, OneWriter DEF Places, Stopped
<1>3. PiecesFit' /\ OnePageIsOpen'
  BY <1>1, SameCode DEF Places, Stopped, Writing
<1>4. WriteTypes'
  BY <1>1, <1>2 DEF WriteInv, WriteTypes
<1>5. WorldIsStopped'
  BY <1>1, <1>2 DEF WriteInv, WorldIsStopped, Stopped, Holding
<1> QED BY <1>3, <1>4, <1>5 DEF WriteInv

LEMMA Resumes ==
  ASSUME WriteInv, NEW w \in Writers, ResumeSysmon(w)
  PROVE  WriteInv'
<1>1. /\ at[w] \in {"resume", "panics"} /\ monitor' = IF lockKnown THEN None ELSE monitor
      /\ UNCHANGED <<prot, left, lockKnown, world, gor, begin, copied, chunk>>
      /\ at' = [at EXCEPT ![w] = "start"] \/ at' = [at EXCEPT ![w] = "unwinds"]
  BY DEF ResumeSysmon, Goes, code, loop, job
<1>2. /\ at' \in [Writers -> Places] /\ at'[w] \in {"start", "unwinds"}
      /\ \A v \in Writers : v # w => at'[v] = at[v]
  BY <1>1, OneWriter DEF Places, Stopped
<1>3. PiecesFit' /\ OnePageIsOpen'
  BY <1>1, SameCode DEF Places, Stopped, Writing
<1>4. WriteTypes'
  BY <1>1, <1>2 DEF WriteInv, WriteTypes
<1>5. WorldIsStopped'
  <2>1. lockKnown => monitor = w
    BY <1>1 DEF WriteInv, WorldIsStopped, Holding
  <2> QED BY <1>1, <1>2, <2>1, CodeAssumption DEF WriteInv, WorldIsStopped, Stopped, Holding
<1> QED BY <1>3, <1>4, <1>5 DEF WriteInv

LEMMA StartsWorld ==
  ASSUME WriteInv, NEW w \in Writers, StartTheWorld(w)
  PROVE  WriteInv'
<1>1. /\ at[w] \in {"start", "unwinds"} /\ world' = None
      /\ gor' = [g \in Goroutines |-> IF gor[g] = "stopped" THEN "runs" ELSE gor[g]]
      /\ UNCHANGED <<prot, left, lockKnown, monitor, begin, copied, chunk>>
      /\ at' = [at EXCEPT ![w] = "test"] \/ at' = [at EXCEPT ![w] = "failed"]
  BY DEF StartTheWorld, Goes, code, loop, job
<1>2. /\ at' \in [Writers -> Places] /\ at'[w] \in {"test", "failed"}
      /\ \A v \in Writers : v # w => at'[v] = at[v]
  BY <1>1, OneWriter DEF Places
<1>3. PiecesFit' /\ OnePageIsOpen'
  BY <1>1, SameCode DEF Places, Writing
<1>4. WriteTypes'
  BY <1>1, <1>2 DEF WriteInv, WriteTypes
<1>5. WorldIsStopped'
  <2>1. world = w
    BY <1>1 DEF WriteInv, WorldIsStopped, Stopped
  <2> QED BY <1>1, <1>2, <2>1, CodeAssumption DEF WriteInv, WorldIsStopped, Stopped, Holding
<1> QED BY <1>4, <1>3, <1>5 DEF WriteInv

(* The loop over the pages. *)
LEMMA ChoosesPiece ==
  ASSUME WriteInv, NEW w \in Writers, Loop(w)
  PROVE  WriteInv'
<1>1. /\ at[w] = "loop" /\ begin[w] < End(w) /\ at' = [at EXCEPT ![w] = "protect"]
      /\ chunk' = [chunk EXCEPT ![w] = ChunkSize(w)]
      /\ copied' = [copied EXCEPT ![w] = 0]
      /\ UNCHANGED <<prot, left, lockKnown, world, monitor, gor, begin>>
  BY DEF Loop, code, sync, job
<1>2. /\ at' \in [Writers -> Places] /\ at'[w] = "protect"
      /\ \A v \in Writers : v # w => at'[v] = at[v]
  BY <1>1, OneWriter DEF Places, Stopped
<1>3. InEntry(w) /\ begin[w] \in Nat /\ End(w) \in Nat
  <2>1. InEntry(w) /\ begin[w] \in Nat
    BY <1>1 DEF WriteInv, WriteTypes, PiecesFit, Writing
  <2>2. Target[w] \in Nat /\ Length[w] \in Nat
    BY CodeAssumption
  <2> QED BY <2>1, <2>2 DEF End
<1>4. /\ ChunkSize(w) \in Nat /\ ChunkSize(w) > 0
      /\ begin[w] + ChunkSize(w) <= End(w)
      /\ begin[w] + ChunkSize(w) <= PageOf(begin[w]) + PageSize
  BY <1>1, <1>3, ChunkFits DEF ChunkSize, Crosses
<1>5. /\ chunk' \in [Writers -> Nat] /\ copied' \in [Writers -> Nat]
      /\ chunk'[w] = ChunkSize(w) /\ copied'[w] = 0
      /\ \A v \in Writers : v # w => chunk'[v] = chunk[v] /\ copied'[v] = copied[v]
  BY <1>1, <1>4 DEF WriteInv, WriteTypes
<1>6. WriteTypes'
  BY <1>1, <1>2, <1>5 DEF WriteInv, WriteTypes
<1>7. WorldIsStopped'
  BY <1>1, <1>2 DEF WriteInv, WorldIsStopped, Stopped, Holding
<1>8. PiecesFit'
  <2>1. InEntry(w)' /\ Piece(w)' /\ copied'[w] <= chunk'[w]
    BY <1>1, <1>3, <1>4, <1>5 DEF InEntry, Piece, End
  <2>2. ASSUME NEW v \in Writers, v # w
        PROVE  /\ (at[v] \in Writing)' => InEntry(v)'
               /\ (at[v] \in {"protect", "copy"})' => Piece(v)' /\ copied'[v] <= chunk'[v]
    BY <1>1, <1>2, <1>5, <2>2 DEF WriteInv, PiecesFit, InEntry, Piece, End
  <2> QED BY <2>1, <2>2 DEF PiecesFit
<1>9. OnePageIsOpen'
  BY <1>1, <1>2 DEF WriteInv, OnePageIsOpen
<1> QED BY <1>6, <1>7, <1>8, <1>9 DEF WriteInv

LEMMA Opens ==
  ASSUME WriteInv, NEW w \in Writers, MakeWritable(w)
  PROVE  WriteInv'
<1>1. /\ at[w] = "protect" /\ at' = [at EXCEPT ![w] = "copy"]
      /\ prot' = [prot EXCEPT ![PageOf(begin[w])] = "rw"]
      /\ UNCHANGED <<left, lockKnown, world, monitor, gor, begin, copied, chunk>>
  BY DEF MakeWritable, Goes, sync, loop, job
<1>2. /\ at' \in [Writers -> Places] /\ at'[w] = "copy"
      /\ \A v \in Writers : v # w => at'[v] = at[v]
  BY <1>1, OneWriter DEF Places, Stopped
<1>3. /\ \A v \in Writers : v # w => at[v] # "copy"
      /\ \A p \in Pages \ left : prot[p] = "rx"
  BY <1>1, Alone DEF Stopped
<1>4. PageOf(begin[w]) \in Pages
  <2>1. InEntry(w) /\ Piece(w) /\ begin[w] \in Nat /\ Target[w] \in Nat /\ Length[w] \in Nat
    BY <1>1, CodeAssumption DEF WriteInv, PiecesFit, Writing, WriteTypes
  <2>2. begin[w] \in Entry(w)
    BY <2>1 DEF InEntry, Piece, Entry, End
  <2> QED BY <2>2, CodeAssumption DEF Pages
<1>5. /\ prot' \in [Pages -> {"rx", "rw"}] /\ prot'[PageOf(begin[w])] = "rw"
      /\ \A p \in Pages : p # PageOf(begin[w]) => prot'[p] = prot[p]
  BY <1>1, <1>4 DEF WriteInv, WriteTypes
<1>6. WriteTypes'
  BY <1>1, <1>2, <1>5 DEF WriteInv, WriteTypes
<1>7. WorldIsStopped'
  BY <1>1, <1>2 DEF WriteInv, WorldIsStopped, Stopped, Holding
<1>8. PiecesFit'
  BY <1>1, <1>2 DEF WriteInv, PiecesFit, InEntry, Piece, End, Writing
<1>9. OnePageIsOpen'
  BY <1>1, <1>2, <1>3, <1>5 DEF OnePageIsOpen
<1> QED BY <1>6, <1>7, <1>8, <1>9 DEF WriteInv

LEMMA Copies ==
  ASSUME WriteInv, NEW w \in Writers, Copy(w)
  PROVE  WriteInv'
<1>1. /\ at[w] = "copy" /\ copied[w] < chunk[w]
      /\ copied' = [copied EXCEPT ![w] = @ + 1]
      /\ UNCHANGED <<prot, left, lockKnown, world, monitor, gor, begin, chunk, at>>
  BY DEF Copy, sync, job
<1>2. /\ copied[w] \in Nat /\ chunk[w] \in Nat
      /\ copied' \in [Writers -> Nat] /\ copied'[w] = copied[w] + 1
      /\ \A v \in Writers : v # w => copied'[v] = copied[v]
  BY <1>1 DEF WriteInv, WriteTypes
<1>3. WriteTypes' /\ WorldIsStopped' /\ OnePageIsOpen'
  BY <1>1, <1>2 DEF WriteInv, WriteTypes, WorldIsStopped, OnePageIsOpen
<1>4. PiecesFit'
  <2>1. copied'[w] <= chunk'[w]
    BY <1>1, <1>2
  <2> QED BY <1>1, <1>2, <2>1 DEF WriteInv, PiecesFit, InEntry, Piece, End
<1> QED BY <1>3, <1>4 DEF WriteInv

LEMMA Closes ==
  ASSUME WriteInv, NEW w \in Writers, MakeExecutable(w)
  PROVE  WriteInv'
<1>1. /\ at[w] = "copy"
      /\ at' = [at EXCEPT ![w] = "loop"] \/ at' = [at EXCEPT ![w] = "resume"]
      /\ prot' = [prot EXCEPT ![PageOf(begin[w])] = "rx"]
      /\ begin' = [begin EXCEPT ![w] = @ + chunk[w]]
      /\ left' = left \ {PageOf(begin[w])}
      /\ UNCHANGED <<lockKnown, world, monitor, gor, copied, chunk>>
  BY DEF MakeExecutable, Goes, sync, job
<1>2. /\ at' \in [Writers -> Places] /\ at'[w] \in {"loop", "resume"}
      /\ \A v \in Writers : v # w => at'[v] = at[v]
  BY <1>1, OneWriter DEF Places, Stopped
<1>3. /\ \A v \in Writers : v # w => at[v] # "copy"
      /\ \A p \in Pages \ left : p # PageOf(begin[w]) => prot[p] = "rx"
  BY <1>1, Alone DEF Stopped
<1>4. /\ prot' \in [Pages -> {"rx", "rw"}]
      /\ \A p \in Pages \ left' : prot'[p] = "rx"
  BY <1>1, <1>3, EntryPages DEF WriteInv, WriteTypes
<1>5. /\ begin' \in [Writers -> Nat] /\ begin'[w] = begin[w] + chunk[w]
      /\ begin[w] \in Nat /\ chunk[w] \in Nat
      /\ \A v \in Writers : v # w => begin'[v] = begin[v]
  BY <1>1 DEF WriteInv, WriteTypes
<1>6. WriteTypes'
  BY <1>1, <1>2, <1>4, <1>5 DEF WriteInv, WriteTypes
<1>7. WorldIsStopped'
  BY <1>1, <1>2 DEF WriteInv, WorldIsStopped, Stopped, Holding
<1>8. PiecesFit'
  <2>1. InEntry(w) /\ Piece(w)
    BY <1>1 DEF WriteInv, PiecesFit, Writing
  <2>2. InEntry(w)'
    BY <1>5, <2>1, CodeAssumption DEF InEntry, Piece, End
  <2>3. ASSUME NEW v \in Writers, v # w
        PROVE  /\ (at[v] \in Writing)' => InEntry(v)'
               /\ (at[v] \in {"protect", "copy"})' => Piece(v)' /\ copied'[v] <= chunk'[v]
    BY <1>1, <1>2, <1>5, <2>3 DEF WriteInv, PiecesFit, InEntry, Piece, End
  <2> QED BY <1>2, <2>2, <2>3 DEF PiecesFit
<1>9. OnePageIsOpen'
  BY <1>2, <1>3, <1>4 DEF OnePageIsOpen
<1> QED BY <1>6, <1>7, <1>8, <1>9 DEF WriteInv

LEMMA Leaves ==
  ASSUME WriteInv, NEW w \in Writers, StaysWritable(w)
  PROVE  WriteInv'
<1>1. /\ at[w] = "copy" /\ at' = [at EXCEPT ![w] = "panics"]
      /\ left' = left \cup {PageOf(begin[w])}
      /\ UNCHANGED <<prot, lockKnown, world, monitor, gor, begin, copied, chunk>>
  BY DEF StaysWritable, Goes, sync, loop, job
<1>2. /\ at' \in [Writers -> Places] /\ at'[w] = "panics"
      /\ \A v \in Writers : v # w => at'[v] = at[v]
  BY <1>1, OneWriter DEF Places, Stopped
<1>3. WriteTypes' /\ WorldIsStopped'
  BY <1>1, <1>2 DEF WriteInv, WriteTypes, WorldIsStopped, Stopped, Holding
<1>4. PiecesFit'
  BY <1>1, <1>2 DEF WriteInv, PiecesFit, InEntry, Piece, End, Writing
<1>5. OnePageIsOpen'
  BY <1>1, <1>2 DEF WriteInv, OnePageIsOpen
<1> QED BY <1>3, <1>4, <1>5 DEF WriteInv

(* The system monitor and the goroutines. *)
LEMMA Others ==
  ASSUME WriteInv,
         \/ SysmonWorks \/ SysmonSleeps
         \/ \E g \in Goroutines : Syscall(g) \/ SyscallEnds(g) \/ Returns(g)
  PROVE  WriteInv'
<1>1. UNCHANGED <<prot, left, lockKnown, world, at, begin, copied, chunk>>
  BY DEF SysmonWorks, SysmonSleeps, Syscall, SyscallEnds, Returns, code, loop, job
<1>2. PiecesFit' /\ OnePageIsOpen'
  BY <1>1 DEF WriteInv, PiecesFit, OnePageIsOpen, InEntry, Piece, End
<1>3. CASE SysmonWorks \/ SysmonSleeps
  <2>1. UNCHANGED gor /\ {monitor, monitor'} \cap Writers = {}
    BY <1>3, CodeAssumption DEF SysmonWorks, SysmonSleeps
  <2> QED BY <1>1, <1>2, <2>1 DEF WriteInv, WriteTypes, WorldIsStopped
<1>4. ASSUME NEW g \in Goroutines, Syscall(g) \/ SyscallEnds(g) \/ Returns(g)
      PROVE  WriteInv'
  <2>1. /\ UNCHANGED monitor
        /\ gor' \in [Goroutines -> {"runs", "stopped", "syscall", "returns"}]
        /\ world # None => \A h \in Goroutines : gor'[h] = "runs" => gor[h] = "runs"
    BY <1>4 DEF Syscall, SyscallEnds, Returns, WriteInv, WriteTypes
  <2> QED BY <1>1, <1>2, <2>1 DEF WriteInv, WriteTypes, WorldIsStopped
<1> QED BY <1>3, <1>4

LEMMA WriteStep ==
  ASSUME WriteInv, [Next]_vars
  PROVE  WriteInv'
<1>1. CASE UNCHANGED vars
  BY <1>1 DEF vars, sync, code, loop, job, WriteInv, WriteTypes, WorldIsStopped, PiecesFit,
              OnePageIsOpen, InEntry, Piece, End
<1>2. ASSUME NEW w \in Writers, Inside(w) PROVE WriteInv'
  BY <1>2, Suspends, LoopIsLeft, Resumes, StartsWorld, ChoosesPiece, Opens, Copies, Closes, Leaves
     DEF Inside
<1> QED BY <1>1, <1>2, StartsWrite, StopsWorld, Others DEF Next

(* Nobody runs on a page while it is written, neither a goroutine nor the  *)
(* system monitor nor a thread that comes back from a system call, as long *)
(* as nothing is mocked on the pages that write itself needs.              *)
THEOREM NobodyEverFaults == Spec => []NobodyFaults
<1>1. WriteInv /\ [Next]_vars => WriteInv'
  BY WriteStep
<1> QED BY WriteInit, <1>1, InvIsSafe, PTL DEF Spec

-----------------------------------------------------------------------------
(* What a write has stored: everything up to where it is, and nothing      *)
(* outside the entry; and only the open page is not in the caches yet.     *)
Stored(w) == {a \in Entry(w) : a < begin[w] \/ (at[w] = "copy" /\ a < begin[w] + copied[w])}
Written ==
  /\ memory \in [Addresses -> {"own", "branch"}]
  /\ data \in [Writers -> {"own", "branch"}]
  /\ \A a \in Addresses : (\A w \in Writers : a \notin Entry(w)) => memory[a] = "own"
  /\ \A w \in Writers :
       /\ at[w] = "test" => \A a \in Entry(w) : memory[a] = data[w]
       /\ at[w] \in Writing \cup {"resume", "start"} => \A a \in Stored(w) : memory[a] = data[w]
       /\ at[w] \in {"protect", "copy"} => chunk[w] = ChunkSize(w)
       /\ at[w] = "protect" => copied[w] = 0
       /\ at[w] \in {"resume", "start"} => begin[w] >= End(w)
Fetchable ==
  /\ Coherent => stale = {}
  /\ stale \subseteq Addresses
  /\ \A a \in stale : \E w \in Writers : at[w] = "copy" /\ PageOf(a) = PageOf(begin[w])
WholeInv == WriteInv /\ Written /\ Fetchable

LEMMA Numbers ==
  ASSUME NEW w \in Writers
  PROVE  Target[w] \in Nat /\ Length[w] \in Nat /\ Length[w] > 0 /\ Entry(w) \subseteq Addresses
BY CodeAssumption

LEMMA WholeInit == Init => WholeInv
<1> SUFFICES ASSUME Init PROVE WholeInv
  OBVIOUS
<1>1. WriteInv
  BY WriteInit
<1>2. /\ memory \in [Addresses -> {"own", "branch"}]
      /\ data \in [Writers -> {"own", "branch"}]
      /\ stale = {}
      /\ \A a \in Addresses : memory[a] = "own"
      /\ \A w \in Writers : data[w] = "own" /\ at[w] = "test"
  BY DEF Init
<1>3. Written
  BY <1>2, Numbers DEF Written, Writing
<1> QED BY <1>1, <1>2, <1>3 DEF WholeInv, Fetchable

(* A whole entry is what everybody finds who runs. *)
LEMMA WholeIsWhole == WholeInv => EntriesAreWhole
<1> SUFFICES ASSUME WholeInv, Runs # {} PROVE EntriesAreWhole
  BY DEF EntriesAreWhole
<1>1. \A w \in Writers : at[w] # "copy"
  BY CodeAssumption DEF Runs, WholeInv, WriteInv, WorldIsStopped, Stopped
<1>2. stale = {}
  BY <1>1 DEF WholeInv, Fetchable
<1> QED BY <1>2 DEF EntriesAreWhole, WholeInv, Written

(* Steps that store nothing: what is known of a writer that stays where it *)
(* is, and of one that goes on.                                            *)
LEMMA StoresNothing ==
  ASSUME WholeInv, NEW w \in Writers, NEW to \in Places \ {"protect", "copy", "test"},
         at' = [at EXCEPT ![w] = to], at[w] # "copy",
         to \in Writing \cup {"resume", "start"} => at[w] \in Writing \cup {"resume"},
         to \in {"resume", "start"} => begin[w] >= End(w),
         UNCHANGED <<memory, stale, data, begin, copied, chunk>>
  PROVE  Written' /\ Fetchable'
<1>1. at'[w] = to /\ \A v \in Writers : v # w => at'[v] = at[v]
  BY OneWriter DEF WholeInv
<1>2. Written'
  BY <1>1 DEF WholeInv, Written, Stored, ChunkSize, Crosses, End
<1> QED BY <1>1, <1>2 DEF WholeInv, Fetchable

LEMMA WholeStep ==
  ASSUME Coherent \/ Flushes, WholeInv, [Next]_vars
  PROVE  WholeInv'
<1>1. WriteInv /\ WriteInv'
  BY WriteStep DEF WholeInv
<1>2. CASE UNCHANGED <<memory, stale, data, at, begin, copied, chunk>>
  BY <1>1, <1>2 DEF WholeInv, Written, Stored, Fetchable, ChunkSize, Crosses, End
<1>3. ASSUME NEW w \in Writers, WriteWithSTW(w) PROVE WholeInv'
  <2>1. /\ at[w] = "test" /\ at' = [at EXCEPT ![w] = "stop"]
        /\ data' = [data EXCEPT ![w] = IF @ = "own" THEN "branch" ELSE "own"]
        /\ begin' = [begin EXCEPT ![w] = Target[w]]
        /\ UNCHANGED <<memory, stale, copied, chunk>>
    BY <1>3 DEF WriteWithSTW, Goes, code, job
  <2>2. at'[w] = "stop" /\ \A v \in Writers : v # w => at'[v] = at[v]
    BY <1>1, <2>1, OneWriter DEF Places
  <2>3. /\ data' \in [Writers -> {"own", "branch"}] /\ begin'[w] = Target[w]
        /\ \A v \in Writers : v # w => data'[v] = data[v] /\ begin'[v] = begin[v]
    BY <1>1, <2>1 DEF WriteInv, WriteTypes, WholeInv, Written
  <2>4. Stored(w)' = {}
    BY <2>2, <2>3, Numbers DEF Stored, Entry
  <2>5. Written'
    BY <2>1, <2>2, <2>3, <2>4 DEF WholeInv, Written, Stored, ChunkSize, Crosses, End
  <2>6. Fetchable'
    BY <2>1, <2>2, <2>3 DEF WholeInv, Fetchable
  <2> QED BY <1>1, <2>1, <2>5, <2>6 DEF WholeInv
<1>4. ASSUME NEW w \in Writers,
             StopTheWorld(w) \/ SuspendSysmon(w) \/ LoopEnds(w) \/ Refused(w) \/ ResumeSysmon(w)
      PROVE  WholeInv'
  <2>1. /\ UNCHANGED <<memory, stale, data, begin, copied, chunk>>
        /\ \E to \in Places \ {"protect", "copy", "test"} :
             /\ at' = [at EXCEPT ![w] = to] /\ at[w] # "copy"
             /\ to \in Writing \cup {"resume", "start"} => at[w] \in Writing \cup {"resume"}
             /\ to = "resume" => begin[w] >= End(w)
             /\ to = "start" => at[w] = "resume"
    BY <1>4 DEF StopTheWorld, SuspendSysmon, LoopEnds, Refused, ResumeSysmon, Goes, code, loop, job,
                Places, Stopped, Writing
  <2>2. at[w] = "resume" => begin[w] >= End(w)
    BY DEF WholeInv, Written
  <2> QED BY <1>1, <2>1, <2>2, StoresNothing DEF WholeInv
<1>5. ASSUME NEW w \in Writers, StartTheWorld(w) PROVE WholeInv'
  <2>1. /\ UNCHANGED <<memory, stale, data, begin, copied, chunk>>
        /\ \/ at[w] = "start" /\ at' = [at EXCEPT ![w] = "test"]
           \/ at[w] = "unwinds" /\ at' = [at EXCEPT ![w] = "failed"]
    BY <1>5 DEF StartTheWorld, Goes, code, loop, job
  <2>2. /\ \/ at[w] = "start" /\ at'[w] = "test"
           \/ at[w] = "unwinds" /\ at'[w] = "failed"
        /\ \A v \in Writers : v # w => at'[v] = at[v]
    BY <1>1, <2>1, OneWriter DEF Places
  <2>3. at[w] = "start" => \A a \in Entry(w) : memory[a] = data[w]
    <3>1. at[w] = "start" => begin[w] >= End(w) /\ \A a \in Stored(w) : memory[a] = data[w]
      BY DEF WholeInv, Written
    <3>2. begin[w] \in Nat /\ begin[w] >= End(w) => Entry(w) \subseteq Stored(w)
      BY Numbers DEF Stored, Entry, End
    <3> QED BY <1>1, <3>1, <3>2 DEF WriteInv, WriteTypes
  <2>4. Written'
    BY <2>1, <2>2, <2>3 DEF WholeInv, Written, Stored, ChunkSize, Crosses, End, Writing
  <2> QED BY <1>1, <2>1, <2>2, <2>4 DEF WholeInv, Fetchable
<1>6. ASSUME NEW w \in Writers, Loop(w) PROVE WholeInv'
  <2>1. /\ at[w] = "loop" /\ at' = [at EXCEPT ![w] = "protect"]
        /\ chunk' = [chunk EXCEPT ![w] = ChunkSize(w)]
        /\ copied' = [copied EXCEPT ![w] = 0]
        /\ UNCHANGED <<memory, stale, data, begin>>
    BY <1>6 DEF Loop, code, job
  <2>2. at'[w] = "protect" /\ \A v \in Writers : v # w => at'[v] = at[v]
    BY <1>1, <2>1, OneWriter DEF Places, Stopped
  <2>3. /\ chunk'[w] = ChunkSize(w) /\ copied'[w] = 0
        /\ \A v \in Writers : v # w => chunk'[v] = chunk[v] /\ copied'[v] = copied[v]
    BY <1>1, <2>1 DEF WriteInv, WriteTypes
  <2>4. Written'
    BY <2>1, <2>2, <2>3 DEF WholeInv, Written, Stored, ChunkSize, Crosses, End, Writing
  <2> QED BY <1>1, <2>1, <2>2, <2>4 DEF WholeInv, Fetchable
<1>7. ASSUME NEW w \in Writers, MakeWritable(w) PROVE WholeInv'
  <2>1. /\ at[w] = "protect" /\ at' = [at EXCEPT ![w] = "copy"]
        /\ UNCHANGED <<memory, stale, data, begin, copied, chunk>>
    BY <1>7 DEF MakeWritable, Goes, loop, job
  <2>2. at'[w] = "copy" /\ \A v \in Writers : v # w => at'[v] = at[v]
    BY <1>1, <2>1, OneWriter DEF Places, Stopped
  <2>3. Stored(w)' \subseteq Stored(w)
    <3>1. copied[w] = 0 /\ begin[w] \in Nat
      BY <1>1, <2>1 DEF WholeInv, Written, WriteInv, WriteTypes
    <3> QED BY <2>1, <3>1 DEF Stored
  <2>4. Written'
    BY <2>1, <2>2, <2>3 DEF WholeInv, Written, Stored, ChunkSize, Crosses, End, Writing
  <2>5. Fetchable'
    BY <2>1, <2>2 DEF WholeInv, Fetchable
  <2> QED BY <1>1, <2>4, <2>5 DEF WholeInv
<1>8. ASSUME NEW w \in Writers, Copy(w) PROVE WholeInv'
  <2> DEFINE a0 == begin[w] + copied[w]
  <2>1. /\ at[w] = "copy" /\ copied[w] < chunk[w]
        /\ memory' = [memory EXCEPT ![a0] = data[w]]
        /\ stale' = IF Coherent THEN stale ELSE stale \cup {a0}
        /\ copied' = [copied EXCEPT ![w] = @ + 1]
        /\ UNCHANGED <<at, data, begin, chunk>>
    BY <1>8 DEF Copy, job
  <2>2. /\ begin[w] \in Nat /\ copied[w] \in Nat /\ chunk[w] \in Nat
        /\ InEntry(w) /\ Piece(w)
    BY <1>1, <2>1 DEF WriteInv, WriteTypes, PiecesFit, Writing
  <2>3. a0 \in Entry(w) /\ a0 \in Nat /\ a0 \in Addresses
    BY <2>1, <2>2, Numbers DEF InEntry, Piece, Entry, End
  <2>4. PageOf(a0) = PageOf(begin[w])
    <3>1. PageOf(begin[w]) \in Nat /\ PageOf(begin[w]) <= begin[w] /\ PageSize \in Nat
      BY <2>2, PageBounds, CodeAssumption
    <3>2. PageOf(begin[w]) <= a0 /\ a0 < PageOf(begin[w]) + PageSize
      BY <2>1, <2>2, <3>1 DEF Piece
    <3> HIDE DEF a0
    <3> QED BY <2>2, <2>3, <3>2, SamePage
  <2>5. copied'[w] = copied[w] + 1 /\ \A v \in Writers : v # w => copied'[v] = copied[v]
    BY <1>1, <2>1 DEF WriteInv, WriteTypes
  <2>6. Stored(w)' \subseteq Stored(w) \cup {a0}
    <3>1. ASSUME NEW a \in Entry(w), a < begin[w] + (copied[w] + 1), a # a0
          PROVE  a < a0
      BY <2>2, <3>1, Numbers DEF Entry
    <3> QED BY <2>1, <2>5, <3>1 DEF Stored, Entry
  <2>7. \A v \in Writers : v # w => a0 \notin Entry(v)
    BY <2>3, CodeAssumption
  <2> HIDE DEF a0
  <2>8. /\ memory' \in [Addresses -> {"own", "branch"}] /\ memory'[a0] = data[w]
        /\ \A a \in Addresses : a # a0 => memory'[a] = memory[a]
    BY <2>1, <2>3 DEF WholeInv, Written
  <2>9. ASSUME NEW v \in Writers, v # w
        PROVE  /\ Stored(v)' = Stored(v)
               /\ \A a \in Entry(v) : memory'[a] = memory[a]
    BY <2>1, <2>5, <2>7, <2>8, <2>9, Numbers DEF Stored, Entry
  <2>10. \A a \in Stored(w)' : memory'[a] = data'[w]
    <3>1. \A a \in Stored(w) : memory[a] = data[w] /\ a \in Addresses
      BY <2>1, Numbers DEF WholeInv, Written, Writing, Stored
    <3> QED BY <2>1, <2>6, <2>8, <3>1
  <2>11. Written'
    <3>1. \A a \in Addresses : (\A v \in Writers : a \notin Entry(v)) => memory'[a] = "own"
      BY <2>3, <2>8 DEF WholeInv, Written
    <3>2. ASSUME NEW v \in Writers
          PROVE  /\ at'[v] = "test" => \A a \in Entry(v) : memory'[a] = data'[v]
                 /\ at'[v] \in Writing \cup {"resume", "start"} =>
                      \A a \in Stored(v)' : memory'[a] = data'[v]
                 /\ at'[v] \in {"protect", "copy"} => chunk'[v] = ChunkSize(v)'
                 /\ at'[v] = "protect" => copied'[v] = 0
                 /\ at'[v] \in {"resume", "start"} => begin'[v] >= End(v)
      <4>1. CASE v = w
        BY <2>1, <2>10, <4>1 DEF WholeInv, Written, ChunkSize, Crosses, End
      <4>2. CASE v # w
        <5>1. \A a \in Stored(v) : a \in Entry(v)
          BY DEF Stored
        <5> QED BY <2>1, <2>5, <2>9, <4>2, <5>1 DEF WholeInv, Written, ChunkSize, Crosses, End
      <4> QED BY <4>1, <4>2
    <3>3. \A v \in Writers : Entry(v)' = Entry(v) /\ End(v)' = End(v)
      BY DEF Entry, End
    <3> QED BY <2>1, <2>8, <3>1, <3>2, <3>3 DEF WholeInv, Written
  <2>12. Fetchable'
    BY <2>1, <2>3, <2>4 DEF WholeInv, Fetchable
  <2> QED BY <1>1, <2>11, <2>12 DEF WholeInv
<1>9. ASSUME NEW w \in Writers, MakeExecutable(w) PROVE WholeInv'
  <2>1. /\ at[w] = "copy" /\ copied[w] = chunk[w]
        /\ at' = [at EXCEPT ![w] = IF Crosses(w) THEN "loop" ELSE "resume"]
        /\ stale' = Flushed(w)
        /\ begin' = [begin EXCEPT ![w] = @ + chunk[w]]
        /\ UNCHANGED <<memory, data, copied, chunk>>
    BY <1>9 DEF MakeExecutable, Goes, job
  <2>2. /\ at'[w] = IF Crosses(w) THEN "loop" ELSE "resume"
        /\ \A v \in Writers : v # w => at'[v] = at[v]
    BY <1>1, <2>1, OneWriter DEF Places, Stopped
  <2>3. /\ begin[w] \in Nat /\ chunk[w] \in Nat /\ begin'[w] = begin[w] + chunk[w]
        /\ \A v \in Writers : v # w => begin'[v] = begin[v]
    BY <1>1, <2>1 DEF WriteInv, WriteTypes
  <2>4. Stored(w)' \subseteq Stored(w)
    BY <2>1, <2>2, <2>3 DEF Stored, Entry
  <2>5. ~Crosses(w) => begin'[w] >= End(w)
    <3>1. chunk[w] = ChunkSize(w)
      BY <2>1 DEF WholeInv, Written
    <3> QED BY <2>3, <3>1, Numbers DEF ChunkSize, End
  <2>6. Written'
    BY <2>1, <2>2, <2>3, <2>4, <2>5 DEF WholeInv, Written, Stored, ChunkSize, Crosses, End, Writing
  <2>7. \A a \in stale : PageOf(a) = PageOf(begin[w])
    <3>1. \A v \in Writers : v # w => at[v] # "copy"
      BY <1>1, <2>1, Alone DEF Stopped
    <3> QED BY <3>1 DEF WholeInv, Fetchable
  <2>8. stale' = {}
    BY <2>1, <2>7 DEF Flushed, WholeInv, Fetchable
  <2> QED BY <1>1, <2>6, <2>8 DEF WholeInv, Fetchable
<1>10. ASSUME NEW w \in Writers, StaysWritable(w) PROVE WholeInv'
  <2>1. /\ at[w] = "copy" /\ at' = [at EXCEPT ![w] = "panics"]
        /\ stale' = Flushed(w)
        /\ UNCHANGED <<memory, data, begin, copied, chunk>>
    BY <1>10 DEF StaysWritable, Goes, loop, job
  <2>2. at'[w] = "panics" /\ \A v \in Writers : v # w => at'[v] = at[v]
    BY <1>1, <2>1, OneWriter DEF Places, Stopped
  <2>3. Written'
    BY <2>1, <2>2 DEF WholeInv, Written, Stored, ChunkSize, Crosses, End, Writing
  <2>4. \A a \in stale : PageOf(a) = PageOf(begin[w])
    <3>1. \A v \in Writers : v # w => at[v] # "copy"
      BY <1>1, <2>1, Alone DEF Stopped
    <3> QED BY <3>1 DEF WholeInv, Fetchable
  <2>5. stale' = {}
    BY <2>1, <2>4 DEF Flushed, WholeInv, Fetchable
  <2> QED BY <1>1, <2>3, <2>5 DEF WholeInv, Fetchable
<1>11. CASE SysmonWorks \/ SysmonSleeps
             \/ \E g \in Goroutines : Syscall(g) \/ SyscallEnds(g) \/ Returns(g)
  BY <1>2, <1>11 DEF SysmonWorks, SysmonSleeps, Syscall, SyscallEnds, Returns, code, loop, job
<1>12. CASE UNCHANGED vars
  BY <1>2, <1>12 DEF vars, code, loop, job
<1> QED BY <1>3, <1>4, <1>5, <1>6, <1>7, <1>8, <1>9, <1>11, <1>12, <1>10 DEF Next, Inside

(* Whoever runs finds every entry whole, as the last write left it, where  *)
(* the processor fetches what was stored or the code flushes its cache:    *)
(* everywhere but on linux/arm64 (write_linux_arm64.s).                    *)
THEOREM EntriesStayWhole ==
  ASSUME Coherent \/ Flushes
  PROVE  Spec => []EntriesAreWhole
<1>1. WholeInv /\ [Next]_vars => WholeInv'
  BY WholeStep
<1> QED BY WholeInit, <1>1, WholeIsWhole, PTL DEF Spec
=============================================================================
