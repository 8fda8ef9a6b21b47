-------------------------- MODULE BsecStoreProofs --------------------------
(***************************************************************************)
(* The store of the air-quality state keeps what was saved, for any number *)
(* of records in a page, of firmwares, of saves, failures and losses of    *)
(* power: types (TypeOK), the order of the records (SequenceOrdersSaves),  *)
(* their survival (SavedSurvives), and that what a restart would load      *)
(* never gets older.                                                       *)
(*                                                                         *)
(* An operation of the flash keeps all records, erases a page or adds one  *)
(* record; a lemma for each says what it does to the records.  The         *)
(* invariant joins this with what save knows at each of its steps.         *)
(***************************************************************************)
EXTENDS BsecStore, TLAPS

USE StoreAssumption

----------------------------------------------------------------------------
(* The invariant                                                           *)

Cells == flash \in [Page -> [Slot -> Record \cup {Empty, Torn}]]

Bounded ==
    \A p \in Page, s \in Slot, f \in Firmware :
        Holds(p, s, f) => Cell(p, s).sequence <= saves /\ Cell(p, s).state <= saves

AckedBounded == \A f \in Firmware : acked[f] <= saves

\* What is about to be written is newer than every record of its firmware.
Pending ==
    op.pc \in {"erase", "body", "commit"} =>
        /\ op.sequence \in 1..saves
        /\ \A p \in Page, s \in Slot : Holds(p, s, firmware) =>
             Cell(p, s).sequence < op.sequence /\ Cell(p, s).state < saves

\* The page to be erased first does not hold the newest record,
EraseIsSafe ==
    op.pc = "erase" =>
        /\ op.slot \in Slot
        /\ \/ \E s \in Slot : IsNewest(Other(op.page), s, firmware)
           \/ ~Found(firmware)

\* nor does the one to be erased last.
OldIsOlder ==
    op.pc = "old" =>
        \E s \in Slot : IsNewest(op.page, s, firmware) /\ Cell(op.page, s).state = saves

FlashInv == Bounded /\ AckedBounded /\ SequenceOrdersSaves /\ SavedSurvives
OpInv == Pending /\ EraseIsSafe /\ OldIsOlder
IInv == TypeOK /\ FlashInv /\ OpInv

----------------------------------------------------------------------------
(* Pages and records                                                       *)

LEMMA OtherPage ==
    \A p, q \in Page : /\ Other(p) \in Page
                       /\ Other(p) # p
                       /\ Other(Other(p)) = p
                       /\ q = p \/ q = Other(p)
  BY DEF Page, Other

LEMMA CellTypes ==
    ASSUME Cells, NEW p \in Page, NEW s \in Slot
    PROVE  /\ Cell(p, s) \in Record \cup {Empty, Torn}
           /\ \A f : Holds(p, s, f) => /\ Cell(p, s) \in Record
                                       /\ Cell(p, s).sequence \in Nat
                                       /\ Cell(p, s).state \in Nat
<1>1. Cell(p, s) \in Record \cup {Empty, Torn}
  BY DEF Cells, Cell
<1>2. \A r \in Record : r.sequence \in Nat /\ r.state \in Nat
  BY DEF Record
<1> QED BY <1>1, <1>2 DEF Holds

LEMMA NewestIsOne ==
    ASSUME Cells, SequenceOrdersSaves, NEW f \in Firmware,
           NEW p \in Page, NEW s \in Slot, IsNewest(p, s, f),
           NEW q \in Page, NEW t \in Slot, IsNewest(q, t, f)
    PROVE  p = q /\ s = t
<1>1. Holds(p, s, f) /\ Holds(q, t, f)
  BY DEF IsNewest
<1>2. Cell(p, s).sequence <= Cell(q, t).sequence /\ Cell(q, t).sequence <= Cell(p, s).sequence
  BY <1>1 DEF IsNewest
<1>3. Cell(p, s).sequence \in Nat /\ Cell(q, t).sequence \in Nat
  BY <1>1, CellTypes
<1>4. Cell(p, s).sequence = Cell(q, t).sequence
  BY <1>2, <1>3
<1> QED BY <1>1, <1>4 DEF SequenceOrdersSaves

----------------------------------------------------------------------------
(* What an operation may do to the records: remove some, keep all, add one *)

Removes == \A p \in Page, s \in Slot : Cell(p, s)' \in {Cell(p, s), Empty, Torn}

Keeps ==
    \A p \in Page, s \in Slot :
        \/ Cell(p, s)' = Cell(p, s)
        \/ Cell(p, s) \in {Empty, Torn} /\ Cell(p, s)' \in {Empty, Torn}

Adds(p, s) ==
    /\ Cell(p, s) = Torn
    /\ Cell(p, s)' = Written
    /\ \A q \in Page, t \in Slot : ~(q = p /\ t = s) => Cell(q, t)' = Cell(q, t)

LEMMA RemovedRecords ==
    ASSUME Removes, NEW p \in Page, NEW s \in Slot
    PROVE  \A f : Holds(p, s, f)' => Holds(p, s, f) /\ Cell(p, s)' = Cell(p, s)
  BY DEF Removes, Holds

LEMMA KeepsRemoves == Keeps => Removes
  BY DEF Keeps, Removes

LEMMA KeptRecords ==
    ASSUME Keeps, NEW p \in Page, NEW s \in Slot
    PROVE  \A f : Holds(p, s, f) => Holds(p, s, f)' /\ Cell(p, s)' = Cell(p, s)
  BY DEF Keeps, Holds

LEMMA NewestStays ==
    ASSUME Removes, NEW p \in Page, NEW s \in Slot, NEW f,
           IsNewest(p, s, f), Cell(p, s)' = Cell(p, s)
    PROVE  IsNewest(p, s, f)'
<1>1. Holds(p, s, f)'
  BY DEF IsNewest, Holds
<1>2. ASSUME NEW q \in Page, NEW t \in Slot, Holds(q, t, f)'
      PROVE  Cell(q, t)'.sequence <= Cell(p, s)'.sequence
  <2>1. Holds(q, t, f) /\ Cell(q, t)' = Cell(q, t)
    BY <1>2, RemovedRecords
  <2> QED BY <2>1 DEF IsNewest
<1> QED BY <1>1, <1>2 DEF IsNewest

\* What a load of f would find is not older after the step.
NewestRises(f) ==
    \A p \in Page, s \in Slot : IsNewest(p, s, f) =>
        \E q \in Page, t \in Slot :
            IsNewest(q, t, f)' /\ Cell(p, s).state <= Cell(q, t)'.state

Rises == \A f \in Firmware : f = firmware => NewestRises(f)

LEMMA StaysRises ==
    ASSUME Cells, Removes, NEW f,
           \A p \in Page, s \in Slot : IsNewest(p, s, f) => Cell(p, s)' = Cell(p, s)
    PROVE  NewestRises(f)
<1>1. ASSUME NEW p \in Page, NEW s \in Slot, IsNewest(p, s, f)
      PROVE  IsNewest(p, s, f)' /\ Cell(p, s).state <= Cell(p, s)'.state
  <2>1. IsNewest(p, s, f)'
    BY <1>1, NewestStays
  <2>2. Cell(p, s).state \in Nat
    BY <1>1, CellTypes DEF IsNewest
  <2> QED BY <1>1, <2>1, <2>2
<1> QED BY <1>1 DEF NewestRises

LEMMA KeepsRises == ASSUME Cells, Keeps PROVE Rises
<1>1. ASSUME NEW f \in Firmware, NEW p \in Page, NEW s \in Slot, IsNewest(p, s, f)
      PROVE  Cell(p, s)' = Cell(p, s)
  BY <1>1, KeptRecords DEF IsNewest
<1> QED BY <1>1, KeepsRemoves, StaysRises DEF Rises

\* Order and bounds only speak of records that are there.
LEMMA RemovesOrder ==
    ASSUME Removes, Cells, Bounded, SequenceOrdersSaves,
           saves \in Nat, saves' \in Nat, saves <= saves'
    PROVE  Bounded' /\ SequenceOrdersSaves'
<1>1. ASSUME NEW p \in Page, NEW s \in Slot, NEW f \in Firmware, Holds(p, s, f)'
      PROVE  Cell(p, s)'.sequence <= saves' /\ Cell(p, s)'.state <= saves'
  <2>1. Holds(p, s, f) /\ Cell(p, s)' = Cell(p, s)
    BY <1>1, RemovedRecords
  <2>2. /\ Cell(p, s).sequence \in Nat /\ Cell(p, s).state \in Nat
        /\ Cell(p, s).sequence <= saves /\ Cell(p, s).state <= saves
    BY <2>1, CellTypes DEF Bounded
  <2> QED BY <2>1, <2>2
<1>2. Bounded'
  BY <1>1 DEF Bounded
<1>3. ASSUME NEW p \in Page, NEW q \in Page, NEW s \in Slot, NEW t \in Slot,
             NEW f \in Firmware, Holds(p, s, f)', Holds(q, t, f)'
      PROVE  /\ Cell(p, s)'.sequence = Cell(q, t)'.sequence => p = q /\ s = t
             /\ Cell(p, s)'.sequence < Cell(q, t)'.sequence =>
                  Cell(p, s)'.state < Cell(q, t)'.state
  <2>1. /\ Holds(p, s, f) /\ Cell(p, s)' = Cell(p, s)
        /\ Holds(q, t, f) /\ Cell(q, t)' = Cell(q, t)
    BY <1>3, RemovedRecords
  <2> QED BY <2>1 DEF SequenceOrdersSaves
<1>4. SequenceOrdersSaves'
  BY <1>3 DEF SequenceOrdersSaves
<1> QED BY <1>2, <1>4

LEMMA KeepsFlash ==
    ASSUME Keeps, Cells, FlashInv, UNCHANGED acked, acked \in [Firmware -> Nat],
           saves \in Nat, saves' \in Nat, saves <= saves'
    PROVE  FlashInv'
<1>1. Removes
  BY KeepsRemoves
<1>2. Bounded' /\ SequenceOrdersSaves'
  BY <1>1, RemovesOrder DEF FlashInv
<1>3. AckedBounded'
  BY DEF FlashInv, AckedBounded
<1>4. ASSUME NEW f \in Firmware, acked'[f] # 0
      PROVE  \E p \in Page, s \in Slot : IsNewest(p, s, f)' /\ Cell(p, s)'.state >= acked'[f]
  <2>1. PICK p \in Page, s \in Slot : IsNewest(p, s, f) /\ Cell(p, s).state >= acked[f]
    BY <1>4 DEF FlashInv, SavedSurvives
  <2>2. Cell(p, s)' = Cell(p, s)
    BY <2>1, KeptRecords DEF IsNewest
  <2>3. IsNewest(p, s, f)'
    BY <1>1, <2>1, <2>2, NewestStays
  <2> QED BY <2>1, <2>2, <2>3
<1>5. SavedSurvives'
  BY <1>4 DEF SavedSurvives
<1> QED BY <1>2, <1>3, <1>5 DEF FlashInv

\* A page is erased, or partly, that does not hold the newest record.
LEMMA EraseFlash ==
    ASSUME Removes, Cells, FlashInv, saves \in Nat, UNCHANGED saves,
           acked \in [Firmware -> Nat],
           acked' = [f \in Firmware |-> IF f = firmware THEN acked[f] ELSE 0],
           firmware \in Firmware,
           NEW p \in Page, \A s \in Slot : Cell(p, s)' = Cell(p, s),
           (\E s \in Slot : IsNewest(p, s, firmware)) \/ ~Found(firmware)
    PROVE  FlashInv'
<1>1. Bounded' /\ SequenceOrdersSaves'
  <2>1. saves <= saves' /\ saves' \in Nat
    OBVIOUS
  <2> QED BY <2>1, RemovesOrder DEF FlashInv
<1>2. AckedBounded'
  BY DEF FlashInv, AckedBounded
<1>3. ASSUME NEW f \in Firmware, acked'[f] # 0
      PROVE  \E q \in Page, s \in Slot : IsNewest(q, s, f)' /\ Cell(q, s)'.state >= acked'[f]
  <2>1. f = firmware /\ acked'[f] = acked[f] /\ acked[f] # 0
    BY <1>3
  <2>2. PICK q \in Page, t \in Slot : IsNewest(q, t, f) /\ Cell(q, t).state >= acked[f]
    BY <2>1 DEF FlashInv, SavedSurvives
  <2>3. Found(firmware)
    BY <2>1, <2>2 DEF IsNewest, Found
  <2>4. PICK s \in Slot : IsNewest(p, s, firmware)
    BY <2>3
  <2>5. p = q /\ s = t
    BY <2>1, <2>2, <2>4, NewestIsOne DEF FlashInv
  <2>6. Cell(p, s)' = Cell(p, s)
    OBVIOUS
  <2>7. IsNewest(p, s, f)'
    BY <2>1, <2>4, <2>6, NewestStays
  <2> QED BY <2>1, <2>2, <2>5, <2>6, <2>7
<1>4. SavedSurvives'
  BY <1>3 DEF SavedSurvives
<1> QED BY <1>1, <1>2, <1>4 DEF FlashInv

\* The commit word makes the newest record.
LEMMA AddFlash ==
    ASSUME NEW p \in Page, NEW s \in Slot, Adds(p, s), Cells, FlashInv,
           saves \in Nat, UNCHANGED saves, NEW g \in Firmware, g = firmware,
           op.sequence \in Nat, op.sequence <= saves,
           \A q \in Page, t \in Slot : Holds(q, t, g) =>
               Cell(q, t).sequence < op.sequence /\ Cell(q, t).state < saves,
           Written \in Record,
           acked \in [Firmware -> Nat],
           acked' \in {acked, [acked EXCEPT ![g] = saves]}
    PROVE  /\ FlashInv'
           /\ IsNewest(p, s, g)'
           /\ Cell(p, s)'.state = saves
<1>1. /\ Written.firmware = g /\ Written.sequence = op.sequence /\ Written.state = saves
      /\ Written \notin {Empty, Torn}
  BY DEF Written
<1>2. \A f : Holds(p, s, f)' <=> f = g
  BY <1>1 DEF Holds, Adds
<1>3. ASSUME NEW q \in Page, NEW t \in Slot, ~(q = p /\ t = s)
      PROVE  /\ Cell(q, t)' = Cell(q, t)
             /\ \A f : Holds(q, t, f)' <=> Holds(q, t, f)
  BY <1>3 DEF Adds, Holds
<1>4. ASSUME NEW f \in Firmware PROVE ~Holds(p, s, f)
  BY DEF Adds, Holds
<1>5. ASSUME NEW q \in Page, NEW t \in Slot, Holds(q, t, g)', ~(q = p /\ t = s)
      PROVE  /\ Cell(q, t)'.sequence < Cell(p, s)'.sequence
             /\ Cell(q, t)'.state < Cell(p, s)'.state
  <2>1. Holds(q, t, g) /\ Cell(q, t)' = Cell(q, t)
    BY <1>3, <1>5
  <2> QED BY <1>1, <2>1 DEF Adds
<1>6. IsNewest(p, s, g)'
  <2>1. ASSUME NEW q \in Page, NEW t \in Slot, Holds(q, t, g)'
        PROVE  Cell(q, t)'.sequence <= Cell(p, s)'.sequence
    <3>1. CASE q = p /\ t = s
      BY <1>1, <3>1 DEF Adds
    <3>2. CASE ~(q = p /\ t = s)
      <4>1. Cell(q, t)' = Cell(q, t) /\ Holds(q, t, g)
        BY <1>3, <2>1, <3>2
      <4>2. Cell(q, t)'.sequence \in Nat /\ Cell(p, s)'.sequence \in Nat
        BY <1>1, <4>1, CellTypes DEF Adds
      <4> QED BY <1>5, <2>1, <3>2, <4>2
    <3> QED BY <3>1, <3>2
  <2> QED BY <1>2, <2>1 DEF IsNewest
<1>7. Bounded'
  <2>1. ASSUME NEW q \in Page, NEW t \in Slot, NEW f \in Firmware, Holds(q, t, f)'
        PROVE  Cell(q, t)'.sequence <= saves' /\ Cell(q, t)'.state <= saves'
    <3>1. CASE q = p /\ t = s
      BY <1>1, <3>1 DEF Adds
    <3>2. CASE ~(q = p /\ t = s)
      BY <1>3, <2>1, <3>2 DEF FlashInv, Bounded
    <3> QED BY <3>1, <3>2
  <2> QED BY <2>1 DEF Bounded
<1>8. AckedBounded'
  BY DEF FlashInv, AckedBounded
<1>9. SequenceOrdersSaves'
  <2>1. ASSUME NEW q \in Page, NEW r \in Page, NEW t \in Slot, NEW u \in Slot,
               NEW f \in Firmware, Holds(q, t, f)', Holds(r, u, f)'
        PROVE  /\ Cell(q, t)'.sequence = Cell(r, u)'.sequence => q = r /\ t = u
               /\ Cell(q, t)'.sequence < Cell(r, u)'.sequence =>
                    Cell(q, t)'.state < Cell(r, u)'.state
    <3>1. CASE ~(q = p /\ t = s) /\ ~(r = p /\ u = s)
      <4>1. /\ Cell(q, t)' = Cell(q, t) /\ Holds(q, t, f)
            /\ Cell(r, u)' = Cell(r, u) /\ Holds(r, u, f)
        BY <1>3, <2>1, <3>1
      <4> QED BY <4>1 DEF FlashInv, SequenceOrdersSaves
    <3>2. CASE q = p /\ t = s /\ r = p /\ u = s
      BY <1>1, <3>2 DEF Adds
    <3>3. CASE q = p /\ t = s /\ ~(r = p /\ u = s)
      <4>1. f = g
        BY <1>2, <2>1, <3>3
      <4>2. Cell(r, u)'.sequence < Cell(q, t)'.sequence
        BY <1>5, <2>1, <3>3, <4>1
      <4>3. Cell(r, u)'.sequence \in Nat /\ Cell(q, t)'.sequence \in Nat
        <5>1. Cell(r, u)' = Cell(r, u) /\ Holds(r, u, f)
          BY <1>3, <2>1, <3>3
        <5> QED BY <1>1, <3>3, <5>1, CellTypes DEF Adds
      <4> QED BY <4>2, <4>3
    <3>4. CASE ~(q = p /\ t = s) /\ r = p /\ u = s
      <4>1. f = g
        BY <1>2, <2>1, <3>4
      <4>2. /\ Cell(q, t)'.sequence < Cell(r, u)'.sequence
            /\ Cell(q, t)'.state < Cell(r, u)'.state
        BY <1>5, <2>1, <3>4, <4>1
      <4>3. Cell(r, u)'.sequence \in Nat /\ Cell(q, t)'.sequence \in Nat
        <5>1. Cell(q, t)' = Cell(q, t) /\ Holds(q, t, f)
          BY <1>3, <2>1, <3>4
        <5> QED BY <1>1, <3>4, <5>1, CellTypes DEF Adds
      <4> QED BY <4>2, <4>3
    <3> QED BY <3>1, <3>2, <3>3, <3>4
  <2> QED BY <2>1 DEF SequenceOrdersSaves
<1>10. SavedSurvives'
  <2>1. ASSUME NEW f \in Firmware, acked'[f] # 0
        PROVE  \E q \in Page, t \in Slot : IsNewest(q, t, f)' /\ Cell(q, t)'.state >= acked'[f]
    <3>1. CASE f = g
      <4>1. acked'[f] <= saves /\ acked'[f] \in Nat
        BY <3>1 DEF FlashInv, AckedBounded
      <4>2. Cell(p, s)'.state = saves
        BY <1>1 DEF Adds
      <4> QED BY <1>6, <3>1, <4>1, <4>2
    <3>2. CASE f # g
      <4>1. acked'[f] = acked[f]
        BY <3>2
      <4>2. PICK q \in Page, t \in Slot : IsNewest(q, t, f) /\ Cell(q, t).state >= acked[f]
        BY <2>1, <4>1 DEF FlashInv, SavedSurvives
      <4>3. ~(q = p /\ t = s)
        BY <1>4, <4>2 DEF IsNewest
      <4>4. Cell(q, t)' = Cell(q, t) /\ Holds(q, t, f)'
        BY <1>3, <4>2, <4>3 DEF IsNewest
      <4>5. ASSUME NEW r \in Page, NEW u \in Slot, Holds(r, u, f)'
            PROVE  Cell(r, u)'.sequence <= Cell(q, t)'.sequence
        <5>1. ~(r = p /\ u = s)
          BY <1>2, <3>2, <4>5
        <5>2. Cell(r, u)' = Cell(r, u) /\ Holds(r, u, f)
          BY <1>3, <4>5, <5>1
        <5> QED BY <4>2, <4>4, <5>2 DEF IsNewest
      <4> QED BY <4>1, <4>2, <4>4, <4>5 DEF IsNewest
    <3> QED BY <3>1, <3>2
  <2> QED BY <2>1 DEF SavedSurvives
<1>11. Cell(p, s)'.state = saves
  BY <1>1 DEF Adds
<1> QED BY <1>6, <1>7, <1>8, <1>9, <1>10, <1>11 DEF FlashInv

----------------------------------------------------------------------------
(* The operations of the flash under the invariant                         *)

Ops == [pc : {"idle", "erase", "body", "commit", "old"}, page : Page,
        slot : 0..Slots, sequence : 0..MaxSaves, rotates : BOOLEAN]

LEMMA Typed ==
    ASSUME IInv
    PROVE  /\ Cells /\ FlashInv
           /\ firmware \in Firmware
           /\ op \in Ops /\ op.page \in Page /\ op.sequence \in Nat
           /\ saves \in Nat /\ saves <= MaxSaves
           /\ acked \in [Firmware -> 0..MaxSaves]
           /\ acked \in [Firmware -> Nat]
<1>1. /\ Cells /\ FlashInv /\ firmware \in Firmware /\ op \in Ops
      /\ saves \in Nat /\ saves <= MaxSaves /\ acked \in [Firmware -> 0..MaxSaves]
  BY DEF IInv, TypeOK, Cells, Ops
<1>2. op.page \in Page /\ op.sequence \in Nat
  BY <1>1 DEF Ops
<1>3. acked \in [Firmware -> Nat]
  BY <1>1
<1> QED BY <1>1, <1>2, <1>3

\* The page the step under way erases
Erased == IF op.pc = "erase" THEN op.page ELSE Other(op.page)

LEMMA ErasingStep ==
    ASSUME IInv, op.pc \in {"erase", "old"}, UNCHANGED saves,
           NEW p \in Page, p = Erased, NEW cells \in [Slot -> Record \cup {Empty, Torn}],
           \A s \in Slot : cells[s] \in {Cell(p, s), Empty, Torn},
           Erasing(p, cells)
    PROVE  /\ Cells' /\ FlashInv' /\ acked' \in [Firmware -> 0..MaxSaves]
           /\ Removes /\ Rises
           /\ \A s \in Slot : Cell(p, s)' = cells[s] /\ Cell(Other(p), s)' = Cell(Other(p), s)
<1>1. Cells'
  BY Typed DEF Cells, Erasing
<1>2. \A s \in Slot : Cell(p, s)' = cells[s]
  BY Typed DEF Cells, Erasing, Cell
<1>3. \A s \in Slot : Cell(Other(p), s)' = Cell(Other(p), s)
  BY Typed, OtherPage DEF Cells, Erasing, Cell
<1>4. Removes
  BY <1>2, <1>3, OtherPage DEF Removes
<1>5. acked' = [f \in Firmware |-> IF f = firmware THEN acked[f] ELSE 0]
  BY DEF Erasing
<1>6. acked' \in [Firmware -> 0..MaxSaves]
  BY <1>5, Typed
<1>7. (\E s \in Slot : IsNewest(Other(p), s, firmware)) \/ ~Found(firmware)
  <2>1. CASE op.pc = "erase"
    BY <2>1 DEF IInv, OpInv, EraseIsSafe, Erased
  <2>2. CASE op.pc = "old"
    BY <2>2, Typed, OtherPage DEF IInv, OpInv, OldIsOlder, Erased
  <2> QED BY <2>1, <2>2
<1>8. FlashInv'
  BY <1>3, <1>4, <1>5, <1>7, Typed, OtherPage, EraseFlash
<1>9. Rises
  <2>1. ASSUME NEW f \in Firmware, f = firmware,
               NEW q \in Page, NEW t \in Slot, IsNewest(q, t, f)
        PROVE  Cell(q, t)' = Cell(q, t)
    <3>1. Found(firmware)
      BY <2>1 DEF Found, IsNewest
    <3>2. PICK s \in Slot : IsNewest(Other(p), s, f)
      BY <1>7, <2>1, <3>1
    <3>3. q = Other(p)
      BY <2>1, <3>2, Typed, OtherPage, NewestIsOne DEF FlashInv
    <3> QED BY <1>3, <3>3
  <2> QED BY <1>4, <2>1, Typed, StaysRises DEF Rises
<1> QED BY <1>1, <1>2, <1>3, <1>4, <1>6, <1>8, <1>9

LEMMA KeepingStep ==
    ASSUME IInv, op.pc \in {"body", "commit"}, NEW cell \in {Empty, Torn},
           NEW p \in Page, p = op.page, NEW s \in Slot, s = op.slot,
           Write(p, s, cell), UNCHANGED <<saves, acked>>
    PROVE  Cells' /\ FlashInv' /\ Keeps /\ Rises /\ Cell(p, s)' = cell
<1>1. Cell(p, s) \in {Empty, Torn}
  BY DEF IInv, TypeOK
<1>2. Cells' /\ Cell(p, s)' = cell
  BY Typed DEF Cells, Write, Cell
<1>3. \A q \in Page, t \in Slot : ~(q = p /\ t = s) => Cell(q, t)' = Cell(q, t)
  BY Typed DEF Cells, Write, Cell
<1>4. Keeps
  BY <1>1, <1>2, <1>3 DEF Keeps
<1>5. FlashInv'
  <2>1. saves' \in Nat /\ saves <= saves' /\ UNCHANGED acked
    BY Typed
  <2> QED BY <1>4, <2>1, Typed, KeepsFlash
<1>6. Rises
  BY <1>4, Typed, KeepsRises
<1> QED BY <1>2, <1>4, <1>5, <1>6

LEMMA WrittenType ==
    ASSUME IInv, op.pc = "commit"
    PROVE  /\ Written \in Record
           /\ op.sequence <= saves
           /\ op.slot \in Slot /\ Cell(op.page, op.slot) = Torn
           /\ \A q \in Page, t \in Slot : Holds(q, t, firmware) =>
                  Cell(q, t).sequence < op.sequence /\ Cell(q, t).state < saves
<1>1. /\ op.sequence \in 1..saves
      /\ \A q \in Page, t \in Slot : Holds(q, t, firmware) =>
             Cell(q, t).sequence < op.sequence /\ Cell(q, t).state < saves
  BY DEF IInv, OpInv, Pending
<1>2. op.sequence \in 1..MaxSaves /\ saves \in 1..MaxSaves /\ op.sequence <= saves
  BY <1>1, Typed
<1>3. Written \in Record
  BY <1>2, Typed DEF Written, Record
<1>4. op.slot \in Slot /\ Cell(op.page, op.slot) = Torn
  BY DEF IInv, TypeOK
<1> QED BY <1>1, <1>2, <1>3, <1>4

LEMMA AddingStep ==
    ASSUME IInv, op.pc = "commit", UNCHANGED saves,
           NEW p \in Page, p = op.page, NEW s \in Slot, s = op.slot,
           Write(p, s, Written),
           acked' \in {acked, [acked EXCEPT ![firmware] = saves]},
           NEW g \in Firmware, g = firmware
    PROVE  /\ Cells' /\ FlashInv' /\ acked' \in [Firmware -> 0..MaxSaves]
           /\ IsNewest(p, s, g)' /\ Cell(p, s)'.state = saves /\ Rises
<1>1. Written \in Record /\ Cell(p, s) = Torn
  BY WrittenType
<1>2. Cells' /\ Cell(p, s)' = Written
  BY <1>1, Typed DEF Cells, Write, Cell
<1>3. \A q \in Page, t \in Slot : ~(q = p /\ t = s) => Cell(q, t)' = Cell(q, t)
  BY Typed DEF Cells, Write, Cell
<1>4. Adds(p, s)
  BY <1>1, <1>2, <1>3 DEF Adds
<1>5. acked' \in [Firmware -> 0..MaxSaves]
  BY Typed
<1>6. /\ op.sequence <= saves
      /\ \A q \in Page, t \in Slot : Holds(q, t, g) =>
             Cell(q, t).sequence < op.sequence /\ Cell(q, t).state < saves
  BY WrittenType
<1>7. FlashInv' /\ IsNewest(p, s, g)' /\ Cell(p, s)'.state = saves
  BY <1>1, <1>4, <1>6, Typed, AddFlash
<1>8. Rises
  <2>1. ASSUME NEW q \in Page, NEW t \in Slot, IsNewest(q, t, g)
        PROVE  Cell(q, t).state <= Cell(p, s)'.state
    <3>1. Holds(q, t, g)
      BY <2>1 DEF IsNewest
    <3>2. Cell(q, t).state \in Nat /\ Cell(q, t).state < saves /\ saves \in Nat
      BY <1>6, <3>1, Typed, CellTypes
    <3> QED BY <1>7, <3>2
  <2>2. NewestRises(g)
    BY <1>7, <2>1 DEF NewestRises
  <2> QED BY <2>2 DEF Rises
<1> QED BY <1>2, <1>5, <1>7, <1>8

LEMMA DamagedStep ==
    ASSUME IInv, Damaged, UNCHANGED saves
    PROVE  Cells' /\ FlashInv' /\ acked' \in [Firmware -> 0..MaxSaves] /\ Rises
<1>1. CASE op.pc \in {"erase", "old"}
  <2>1. Erased \in Page
    BY Typed, OtherPage DEF Erased
  <2>2. PICK p \in Page : p = Erased
    BY <2>1
  <2>3. PICK cleared \in SUBSET Slot, torn \in SUBSET Slot : Erasing(p, LeftBy(p, cleared, torn))
    BY <1>1, <2>2 DEF Damaged, Erased
  <2> DEFINE cells == LeftBy(p, cleared, torn)
  <2>4. \A s \in Slot : cells[s] \in {Cell(p, s), Empty, Torn}
    BY DEF LeftBy
  <2>5. \A s \in Slot : Cell(p, s) \in Record \cup {Empty, Torn}
    BY Typed, CellTypes
  <2>6. cells \in [Slot -> Record \cup {Empty, Torn}]
    BY <2>5 DEF LeftBy
  <2> HIDE DEF cells
  <2>7. Erasing(p, cells)
    BY <2>3 DEF cells
  <2> QED BY <1>1, <2>2, <2>4, <2>6, <2>7, ErasingStep
<1>2. CASE op.pc \in {"body", "commit"}
  <2>1. op.slot \in Slot
    BY <1>2 DEF IInv, TypeOK
  <2>2. PICK p \in Page, s \in Slot : p = op.page /\ s = op.slot
    BY <2>1, Typed
  <2>3. UNCHANGED acked
    BY <1>2 DEF Damaged
  <2>4. \/ \E cell \in {Empty, Torn} : Write(p, s, cell)
        \/ op.pc = "commit" /\ Write(p, s, Written)
    BY <1>2, <2>2 DEF Damaged
  <2>5. CASE \E cell \in {Empty, Torn} : Write(p, s, cell)
    <3>1. PICK cell \in {Empty, Torn} : Write(p, s, cell)
      BY <2>5
    <3>2. Cells' /\ FlashInv' /\ Rises
      BY <1>2, <2>2, <2>3, <3>1, KeepingStep
    <3> QED BY <2>3, <3>2, Typed
  <2>6. CASE op.pc = "commit" /\ Write(p, s, Written)
    <3>1. PICK g \in Firmware : g = firmware
      BY Typed
    <3> QED BY <2>2, <2>3, <2>6, <3>1, AddingStep
  <2> QED BY <2>4, <2>5, <2>6
<1> QED BY <1>1, <1>2 DEF Damaged

----------------------------------------------------------------------------
(* The steps                                                               *)

LEMMA IdleOp == op = Idle => op \in Ops /\ op.pc = "idle" /\ OpInv
<1> SUFFICES ASSUME op = Idle PROVE op \in Ops /\ op.pc = "idle" /\ OpInv
  OBVIOUS
<1>1. op.pc = "idle"
  BY DEF Idle
<1>2. op \in Ops
  BY DEF Idle, Ops, Page
<1> QED BY <1>1, <1>2 DEF OpInv, Pending, EraseIsSafe, OldIsOlder

LEMMA StoreInit == Init => IInv
<1> SUFFICES ASSUME Init PROVE IInv
  OBVIOUS
<1>1. \A p \in Page, s \in Slot : Cell(p, s) = Empty
  BY DEF Init, Cell
<1>2. \A p \in Page, s \in Slot : \A f : ~Holds(p, s, f)
  BY <1>1 DEF Holds
<1>3. op = Idle
  BY DEF Init
<1>4. TypeOK
  <2>1. flash \in [Page -> [Slot -> Record \cup {Empty, Torn}]]
    BY DEF Init
  <2>2. /\ firmware \in Firmware
        /\ saved = FALSE /\ calibrated = FALSE /\ due = FALSE /\ kept = FALSE
        /\ saves = 0 /\ faults = 0
        /\ acked \in [Firmware -> 0..MaxSaves]
    BY DEF Init
  <2>3. op \in Ops /\ op.pc = "idle"
    BY <1>3, IdleOp
  <2>4. 0 \in 0..MaxSaves /\ 0 \in 0..MaxFaults
    BY StoreAssumption
  <2>5. op \in Ops /\ op.pc \notin {"body", "commit"}
    BY <2>3
  <2>6. saves \in 0..MaxSaves /\ faults \in 0..MaxFaults
    BY <2>2, <2>4
  <2>7. {saved, calibrated, due, kept} \subseteq BOOLEAN
    BY <2>2
  <2> QED BY <2>1, <2>2, <2>5, <2>6, <2>7 DEF TypeOK, Ops
<1>5. Bounded /\ SequenceOrdersSaves
  BY <1>2 DEF Bounded, SequenceOrdersSaves
<1>6. AckedBounded /\ SavedSurvives
  BY DEF Init, AckedBounded, SavedSurvives
<1> QED BY <1>3, <1>4, <1>5, <1>6, IdleOp DEF IInv, FlashInv

\* A step that ends in the idle state
LEMMA IdleStep ==
    ASSUME IInv, Cells', FlashInv', acked' \in [Firmware -> 0..MaxSaves],
           firmware' \in Firmware, op' = Idle, UNCHANGED saves,
           saved' \in BOOLEAN, calibrated' \in BOOLEAN, due' \in BOOLEAN,
           kept' \in BOOLEAN, faults' \in 0..MaxFaults
    PROVE  IInv'
<1>1. saves' \in 0..MaxSaves
  BY DEF IInv, TypeOK
<1>2. (op = Idle)' => (op \in Ops)' /\ (op.pc = "idle")' /\ OpInv'
  BY IdleOp, PTL
<1> QED BY <1>1, <1>2 DEF IInv, TypeOK, Cells, Ops


\* save scans, and finds where to write and under which number.
LEMMA StartStep ==
    ASSUME IInv, op.pc = "idle", StartSave, UNCHANGED <<saved, due, faults>>,
           calibrated' \in BOOLEAN, kept' \in BOOLEAN
    PROVE  IInv'
<1>1. saves' = saves + 1 /\ saves' \in 0..MaxSaves /\ saves \in Nat
  BY Typed DEF StartSave
<1>2. UNCHANGED <<flash, firmware, acked>>
  BY DEF StartSave
<1>3. PICK p \in Page, n \in 0..MaxSaves :
        /\ Scanned(p, n)
        /\ \/ \E s \in Slot :
                /\ IsFirstEmpty(p, s)
                /\ op' = [pc |-> "body", page |-> p, slot |-> s,
                          sequence |-> NextSequence(n), rotates |-> FALSE]
           \/ op' = [pc |-> "erase", page |-> Rotated(p), slot |-> 1,
                     sequence |-> NextSequence(n), rotates |-> Found(firmware)]
  BY DEF StartSave
<1>4. Cells'
  BY <1>2, Typed DEF Cells
<1>5. FlashInv'
  <2>1. Keeps
    BY <1>2 DEF Keeps, Cell
  <2>2. saves' \in Nat /\ saves <= saves' /\ UNCHANGED acked
    BY <1>1, <1>2
  <2> QED BY <1>1, <2>1, <2>2, Typed, KeepsFlash
<1>6. /\ n <= saves
      /\ \A q \in Page, t \in Slot : Holds(q, t, firmware) => Cell(q, t).sequence <= n
  <2>1. CASE \E s \in Slot : IsNewest(p, s, firmware) /\ n = Cell(p, s).sequence
    BY <2>1, Typed DEF IsNewest, FlashInv, Bounded
  <2>2. CASE ~Found(firmware) /\ n = 0
    BY <1>1, <2>2 DEF Found
  <2> QED BY <1>3, <2>1, <2>2 DEF Scanned
<1>7. NextSequence(n) \in 1..saves' /\ NextSequence(n) \in 0..MaxSaves /\ NextSequence(n) = n + 1
  BY <1>1, <1>6 DEF NextSequence
<1>8. /\ op' \in Ops /\ op'.sequence = n + 1 /\ op'.pc \in {"body", "erase"}
      /\ op'.slot \in Slot
      /\ op'.pc = "body" => Cell(op'.page, op'.slot) = Empty
      /\ op'.pc = "erase" => op'.page = Other(p)
  <2>1. CASE \E s \in Slot :
                /\ IsFirstEmpty(p, s)
                /\ op' = [pc |-> "body", page |-> p, slot |-> s,
                          sequence |-> NextSequence(n), rotates |-> FALSE]
    <3>1. PICK s \in Slot :
            /\ Cell(p, s) = Empty
            /\ op' = [pc |-> "body", page |-> p, slot |-> s,
                      sequence |-> NextSequence(n), rotates |-> FALSE]
      BY <2>1 DEF IsFirstEmpty
    <3>2. s \in 0..Slots
      BY DEF Slot
    <3> QED BY <1>7, <3>1, <3>2 DEF Ops
  <2>2. CASE op' = [pc |-> "erase", page |-> Rotated(p), slot |-> 1,
                    sequence |-> NextSequence(n), rotates |-> Found(firmware)]
    <3>1. Rotated(p) \in Page /\ Rotated(p) = Other(p) /\ 1 \in 0..Slots /\ 1 \in Slot
      BY OtherPage DEF Rotated, Slot
    <3>2. Found(firmware) \in BOOLEAN
      BY DEF Found
    <3> QED BY <1>7, <2>2, <3>1, <3>2 DEF Ops
  <2> QED BY <1>3, <2>1, <2>2
<1>9. (op.pc = "body" => Cell(op.page, op.slot) = Empty)'
  BY <1>2, <1>8 DEF Cell
<1>10. Pending'
  <2>1. ASSUME NEW q \in Page, NEW t \in Slot, Holds(q, t, firmware)'
        PROVE  Cell(q, t)'.sequence < op'.sequence /\ Cell(q, t)'.state < saves'
    <3>1. Holds(q, t, firmware) /\ Cell(q, t)' = Cell(q, t)
      BY <1>2, <2>1 DEF Holds, Cell
    <3>2. /\ Cell(q, t).sequence \in Nat /\ Cell(q, t).state \in Nat
          /\ Cell(q, t).sequence <= n /\ Cell(q, t).state <= saves
      BY <1>6, <3>1, Typed, CellTypes DEF FlashInv, Bounded
    <3> QED BY <1>1, <1>8, <3>1, <3>2
  <2>2. op'.sequence \in 1..saves'
    BY <1>7, <1>8
  <2> QED BY <2>1, <2>2 DEF Pending
<1>11. EraseIsSafe'
  <2>1. SUFFICES ASSUME op'.pc = "erase"
                 PROVE  \/ \E s \in Slot : IsNewest(Other(op.page), s, firmware)'
                        \/ ~Found(firmware)'
    BY <1>8 DEF EraseIsSafe
  <2>2. Other(op'.page) = p
    BY <1>8, <2>1, OtherPage
  <2>3. \/ \E s \in Slot : IsNewest(p, s, firmware)
        \/ ~Found(firmware)
    BY <1>3 DEF Scanned
  <2>4. CASE ~Found(firmware)
    BY <1>2, <2>4 DEF Found, Holds, Cell
  <2>5. CASE \E s \in Slot : IsNewest(p, s, firmware)
    <3>1. PICK s \in Slot : IsNewest(p, s, firmware)
      BY <2>5
    <3>2. IsNewest(Other(op.page), s, firmware)'
      BY <1>2, <2>2, <3>1 DEF IsNewest, Holds, Cell
    <3> QED BY <3>2
  <2> QED BY <2>3, <2>4, <2>5
<1>12. OldIsOlder'
  BY <1>8 DEF OldIsOlder
<1>13. TypeOK'
  BY <1>1, <1>2, <1>4, <1>8, <1>9, Typed DEF TypeOK, Cells, Ops, IInv
<1> QED BY <1>5, <1>10, <1>11, <1>12, <1>13 DEF IInv, OpInv

LEMMA Went ==
    ASSUME op \in Ops, NEW pc \in {"idle", "erase", "body", "commit", "old"}, Go(pc)
    PROVE  /\ op' \in Ops /\ op'.pc = pc
           /\ op'.page = op.page /\ op'.slot = op.slot /\ op'.sequence = op.sequence
  BY DEF Ops, Go

LEMMA EraseStep == ASSUME IInv, Erase PROVE IInv'
<1>1. op.pc = "erase" /\ Go("body") /\ UNCHANGED <<firmware, serviceVars, saves, kept, faults>>
  BY DEF Erase
<1>2. PICK p \in Page : p = op.page
  BY Typed
<1> DEFINE cells == [s \in Slot |-> Empty]
<1>3. cells \in [Slot -> Record \cup {Empty, Torn}] /\ \A s \in Slot : cells[s] = Empty
  OBVIOUS
<1>4. Erasing(p, cells) /\ UNCHANGED saves
  BY <1>1, <1>2 DEF Erase
<1> HIDE DEF cells
<1>5. /\ Cells' /\ FlashInv' /\ acked' \in [Firmware -> 0..MaxSaves]
      /\ Removes /\ \A s \in Slot : Cell(p, s)' = Empty
  BY <1>1, <1>2, <1>3, <1>4, ErasingStep DEF Erased
<1>6. /\ op' \in Ops /\ op'.pc = "body"
      /\ op'.page = p /\ op'.slot = op.slot /\ op'.sequence = op.sequence
  BY <1>1, <1>2, Typed, Went
<1>7. op.slot \in Slot
  BY <1>1 DEF IInv, OpInv, EraseIsSafe
<1>8. (Cell(op.page, op.slot) = Empty)'
  BY <1>5, <1>6, <1>7 DEF Cell
<1>9. Pending'
  <2>1. /\ op.sequence \in 1..saves
        /\ \A q \in Page, t \in Slot : Holds(q, t, firmware) =>
             Cell(q, t).sequence < op.sequence /\ Cell(q, t).state < saves
    BY <1>1 DEF IInv, OpInv, Pending
  <2>2. ASSUME NEW q \in Page, NEW t \in Slot, Holds(q, t, firmware)'
        PROVE  Cell(q, t)'.sequence < op'.sequence /\ Cell(q, t)'.state < saves'
    <3>1. firmware' = firmware /\ saves' = saves
      BY <1>1
    <3>2. Holds(q, t, firmware) /\ Cell(q, t)' = Cell(q, t)
      BY <1>5, <2>2, <3>1, RemovedRecords DEF Holds
    <3> QED BY <1>6, <2>1, <3>1, <3>2
  <2> QED BY <1>1, <1>6, <2>1, <2>2 DEF Pending
<1>10. EraseIsSafe' /\ OldIsOlder'
  BY <1>6 DEF EraseIsSafe, OldIsOlder
<1>11. TypeOK'
  BY <1>1, <1>5, <1>6, <1>7, <1>8 DEF IInv, TypeOK, Cells, Ops, serviceVars
<1> QED BY <1>5, <1>9, <1>10, <1>11 DEF IInv, OpInv

LEMMA WriteBodyStep == ASSUME IInv, WriteBody PROVE IInv'
<1>1. op.pc = "body" /\ Go("commit") /\ UNCHANGED <<firmware, serviceVars, saves, acked, kept, faults>>
  BY DEF WriteBody
<1>2. op.slot \in Slot
  BY <1>1 DEF IInv, TypeOK
<1>3. PICK p \in Page, s \in Slot : p = op.page /\ s = op.slot
  BY <1>2, Typed
<1>4. Write(p, s, Torn) /\ UNCHANGED <<saves, acked>>
  BY <1>1, <1>3 DEF WriteBody
<1>5. Cells' /\ FlashInv' /\ Keeps /\ Cell(p, s)' = Torn
  BY <1>1, <1>3, <1>4, KeepingStep
<1>6. /\ op' \in Ops /\ op'.pc = "commit"
      /\ op'.page = p /\ op'.slot = s /\ op'.sequence = op.sequence
  BY <1>1, <1>3, Typed, Went
<1>7. (Cell(op.page, op.slot) = Torn)'
  BY <1>5, <1>6 DEF Cell
<1>8. Pending'
  <2>1. /\ op.sequence \in 1..saves
        /\ \A q \in Page, t \in Slot : Holds(q, t, firmware) =>
             Cell(q, t).sequence < op.sequence /\ Cell(q, t).state < saves
    BY <1>1 DEF IInv, OpInv, Pending
  <2>2. ASSUME NEW q \in Page, NEW t \in Slot, Holds(q, t, firmware)'
        PROVE  Cell(q, t)'.sequence < op'.sequence /\ Cell(q, t)'.state < saves'
    <3>1. firmware' = firmware /\ saves' = saves
      BY <1>1
    <3>2. Holds(q, t, firmware) /\ Cell(q, t)' = Cell(q, t)
      BY <1>5, <2>2, <3>1, KeepsRemoves, RemovedRecords DEF Holds
    <3> QED BY <1>6, <2>1, <3>1, <3>2
  <2> QED BY <1>1, <1>6, <2>1, <2>2 DEF Pending
<1>9. EraseIsSafe' /\ OldIsOlder'
  BY <1>6 DEF EraseIsSafe, OldIsOlder
<1>10. TypeOK'
  BY <1>1, <1>3, <1>5, <1>6, <1>7 DEF IInv, TypeOK, Cells, Ops, serviceVars
<1> QED BY <1>5, <1>8, <1>9, <1>10 DEF IInv, OpInv

LEMMA WriteCommitStep == ASSUME IInv, WriteCommit PROVE IInv'
<1>1. op.pc = "commit" /\ kept' = TRUE /\ UNCHANGED <<firmware, saves, faults, calibrated>>
  BY DEF WriteCommit, Saved, serviceVars
<1>2. PICK p \in Page, s \in Slot : p = op.page /\ s = op.slot
  BY <1>1, Typed, WrittenType
<1>3. PICK g \in Firmware : g = firmware
  BY Typed
<1>4. /\ Write(p, s, Written) /\ UNCHANGED saves
      /\ acked' \in {acked, [acked EXCEPT ![firmware] = saves]}
  BY <1>1, <1>2 DEF WriteCommit
<1>5. /\ Cells' /\ FlashInv' /\ acked' \in [Firmware -> 0..MaxSaves]
      /\ IsNewest(p, s, g)' /\ Cell(p, s)'.state = saves
  BY <1>1, <1>2, <1>3, <1>4, AddingStep
<1>6. CASE op.rotates /\ Go("old") /\ UNCHANGED <<firmware, serviceVars, saves, faults>>
  <2>1. op' \in Ops /\ op'.pc = "old" /\ op'.page = p
    BY <1>2, <1>6, Typed, Went
  <2>2. OldIsOlder'
    BY <1>1, <1>3, <1>5, <2>1 DEF OldIsOlder
  <2>3. Pending' /\ EraseIsSafe'
    BY <2>1 DEF Pending, EraseIsSafe
  <2>4. TypeOK'
    BY <1>1, <1>5, <1>6, <2>1 DEF IInv, TypeOK, Cells, Ops, serviceVars
  <2> QED BY <1>5, <2>2, <2>3, <2>4 DEF IInv, OpInv
<1>7. CASE Saved
  <2>1. op' = Idle /\ saved' \in BOOLEAN /\ due' \in BOOLEAN /\ kept' \in BOOLEAN
    BY <1>1, <1>7 DEF Saved
  <2>2. firmware' \in Firmware /\ calibrated' \in BOOLEAN /\ faults' \in 0..MaxFaults
    BY <1>1, Typed DEF IInv, TypeOK
  <2> QED BY <1>4, <1>5, <2>1, <2>2, IdleStep
<1> QED BY <1>6, <1>7 DEF WriteCommit

LEMMA EraseOldStep == ASSUME IInv, EraseOld PROVE IInv'
<1>1. op.pc = "old" /\ Saved
  BY DEF EraseOld
<1>2. Erased \in Page
  BY Typed, OtherPage DEF Erased
<1>3. PICK p \in Page : p = Erased
  BY <1>2
<1> DEFINE cells == [s \in Slot |-> Empty]
<1>4. cells \in [Slot -> Record \cup {Empty, Torn}] /\ \A s \in Slot : cells[s] = Empty
  OBVIOUS
<1>5. Erasing(p, cells) /\ UNCHANGED saves
  BY <1>1, <1>3 DEF EraseOld, Erased, Saved
<1> HIDE DEF cells
<1>6. Cells' /\ FlashInv' /\ acked' \in [Firmware -> 0..MaxSaves]
  BY <1>1, <1>3, <1>4, <1>5, ErasingStep
<1>7. op' = Idle /\ saved' \in BOOLEAN /\ due' \in BOOLEAN /\ kept' \in BOOLEAN
  BY <1>1 DEF EraseOld, Saved, IInv, TypeOK
<1>8. firmware' \in Firmware /\ calibrated' \in BOOLEAN /\ faults' \in 0..MaxFaults
  BY <1>1, Typed DEF IInv, TypeOK, Saved
<1> QED BY <1>5, <1>6, <1>7, <1>8, IdleStep

LEMMA FaultCount == ASSUME IInv, Fault PROVE faults' \in 0..MaxFaults
  BY DEF IInv, TypeOK, Fault

LEMMA FailsStep == ASSUME IInv, Fails PROVE IInv'
<1>1. Damaged /\ Fault /\ op' = Idle /\ UNCHANGED <<firmware, calibrated, saves, kept>>
  BY DEF Fails
<1>2. Cells' /\ FlashInv' /\ acked' \in [Firmware -> 0..MaxSaves]
  BY <1>1, DamagedStep
<1>3. saved' \in BOOLEAN /\ due' \in BOOLEAN /\ kept' \in BOOLEAN
  BY DEF Fails, IInv, TypeOK
<1>4. firmware' \in Firmware /\ calibrated' \in BOOLEAN /\ faults' \in 0..MaxFaults
  BY <1>1, Typed, FaultCount DEF IInv, TypeOK
<1> QED BY <1>1, <1>2, <1>3, <1>4, IdleStep

LEMMA SameFlash ==
    ASSUME IInv, UNCHANGED <<flash, acked>>, UNCHANGED saves
    PROVE  Cells' /\ FlashInv' /\ acked' \in [Firmware -> 0..MaxSaves]
<1>1. Keeps
  BY DEF Keeps, Cell
<1>2. saves' \in Nat /\ saves <= saves' /\ UNCHANGED acked
  BY Typed
<1>3. FlashInv'
  BY <1>1, <1>2, Typed, KeepsFlash
<1> QED BY <1>3, Typed DEF Cells

LEMMA RestartStep == ASSUME IInv, NEW f \in Firmware, Restart(f) PROVE IInv'
<1>1. /\ Damaged \/ UNCHANGED <<flash, acked>>
      /\ firmware' = f /\ op' = Idle /\ due' = FALSE /\ UNCHANGED saves
      /\ saved' \in {FALSE, Found(f)'} /\ calibrated' = saved' /\ kept' = saved'
  BY DEF Restart
<1>2. Cells' /\ FlashInv' /\ acked' \in [Firmware -> 0..MaxSaves]
  BY <1>1, DamagedStep, SameFlash
<1>3. Found(f)' \in BOOLEAN
  BY DEF Found
<1>4. saved' \in BOOLEAN /\ calibrated' \in BOOLEAN /\ due' \in BOOLEAN /\ kept' \in BOOLEAN
  BY <1>1, <1>3
<1>5. faults' \in 0..MaxFaults
  BY FaultCount DEF Restart
<1> QED BY <1>1, <1>2, <1>4, <1>5, IdleStep

\* A step between saves
LEMMA BetweenSaves ==
    ASSUME IInv, op.pc = "idle", UNCHANGED <<flash, firmware, op, saves, acked>>,
           saved' \in BOOLEAN, calibrated' \in BOOLEAN, due' \in BOOLEAN,
           kept' \in BOOLEAN, faults' \in 0..MaxFaults
    PROVE  IInv'
<1>1. Cells' /\ FlashInv' /\ acked' \in [Firmware -> 0..MaxSaves]
  BY SameFlash
<1>2. op' = op /\ op'.pc = "idle"
  OBVIOUS
<1>3. OpInv'
  BY <1>2 DEF OpInv, Pending, EraseIsSafe, OldIsOlder
<1>4. TypeOK'
  BY <1>1, <1>2 DEF IInv, TypeOK, Cells
<1> QED BY <1>1, <1>3, <1>4 DEF IInv

LEMMA KeptStep == ASSUME NEW eligible, KeptWhile(eligible) PROVE kept' \in BOOLEAN
BY Zenon DEF KeptWhile

LEMMA StoreStep == IInv /\ [Next]_vars => IInv'
<1> SUFFICES ASSUME IInv, [Next]_vars PROVE IInv'
  OBVIOUS
<1>1. ASSUME NEW eligible \in BOOLEAN, Process(eligible) PROVE IInv'
  <2>1. /\ op.pc = "idle" /\ calibrated' \in BOOLEAN /\ kept' \in BOOLEAN
        /\ UNCHANGED <<saved, due, faults>>
    BY <1>1, KeptStep DEF Process
  <2>2. CASE StartSave
    BY <2>1, <2>2, StartStep
  <2>3. CASE UNCHANGED <<flash, firmware, op, saves, acked>>
    <3>1. saved' \in BOOLEAN /\ due' \in BOOLEAN /\ faults' \in 0..MaxFaults
      BY <2>1 DEF IInv, TypeOK
    <3> QED BY <2>1, <2>3, <3>1, BetweenSaves
  <2> QED BY <1>1, <2>2, <2>3 DEF Process
<1>2. CASE StateRefused
  <2>1. saved' \in BOOLEAN /\ due' \in BOOLEAN /\ calibrated' \in BOOLEAN
    BY <1>2 DEF StateRefused, IInv, TypeOK
  <2>2. kept' \in BOOLEAN /\ faults' \in 0..MaxFaults
    BY <1>2, FaultCount, KeptStep DEF StateRefused
  <2> QED BY <1>2, <2>1, <2>2, BetweenSaves DEF StateRefused
<1>3. CASE Elapse
  <2>1. /\ saved' \in BOOLEAN /\ due' \in BOOLEAN /\ calibrated' \in BOOLEAN
        /\ kept' \in BOOLEAN /\ faults' \in 0..MaxFaults
    BY <1>3 DEF Elapse, IInv, TypeOK
  <2> QED BY <1>3, <2>1, BetweenSaves DEF Elapse
<1>4. CASE UNCHANGED vars
  <2>1. Cells' /\ FlashInv' /\ acked' \in [Firmware -> 0..MaxSaves]
    BY <1>4, SameFlash DEF vars
  <2>2. OpInv'
    BY <1>4 DEF vars, IInv, OpInv, Pending, EraseIsSafe, OldIsOlder, Found, IsNewest, Holds, Cell
  <2>3. TypeOK'
    BY <1>4 DEF vars, serviceVars, IInv, TypeOK, Cell
  <2> QED BY <2>1, <2>2, <2>3 DEF IInv
<1> QED
  BY <1>1, <1>2, <1>3, <1>4, EraseStep, WriteBodyStep, WriteCommitStep, EraseOldStep,
     FailsStep, RestartStep DEF Next, SaveStep

LEMMA StoreInvariant == Spec => []IInv
  BY StoreInit, StoreStep, PTL DEF Spec

(***************************************************************************)
(* Types of the flash and of a save under way, for any number of records   *)
(* in a page: a record is only ever written to a slot that is erased.      *)
(***************************************************************************)
THEOREM StoreTypeCorrect == Spec => []TypeOK
<1>1. IInv => TypeOK
  BY DEF IInv
<1> QED BY <1>1, StoreInvariant, PTL

(***************************************************************************)
(* For any number of records in a page, of firmwares, failures and losses  *)
(* of power: what pyronet_bsec_state_store_save has stored is found again, *)
(* or something newer.                                                     *)
(***************************************************************************)
THEOREM StoreSavedSurvives == Spec => []SavedSurvives
<1>1. IInv => SavedSurvives
  BY DEF IInv, FlashInv
<1> QED BY <1>1, StoreInvariant, PTL

(***************************************************************************)
(* Likewise, the record pyronet_bsec_state_store_scan finds is the one     *)
(* that was saved last: sequences order the records as the saves were made.*)
(***************************************************************************)
THEOREM StoreSequenceOrdersSaves == Spec => []SequenceOrdersSaves
<1>1. IInv => SequenceOrdersSaves
  BY DEF IInv, FlashInv
<1> QED BY <1>1, StoreInvariant, PTL

LEMMA RisesStep == IInv /\ [Next]_vars => [Rises]_vars
<1> SUFFICES ASSUME IInv, Next PROVE Rises
  BY DEF Rises
<1> DEFINE cells == [s \in Slot |-> Empty]
<1>1. cells \in [Slot -> Record \cup {Empty, Torn}] /\ \A s \in Slot : cells[s] = Empty
  OBVIOUS
<1>2. PICK p \in Page : p = op.page
  BY Typed
<1>3. PICK g \in Firmware : g = firmware
  BY Typed
<1>4. CASE Erase
  <2>1. op.pc = "erase" /\ UNCHANGED saves /\ p = Erased /\ Erasing(p, cells)
    BY <1>2, <1>4 DEF Erase, Erased
  <2> HIDE DEF cells
  <2> QED BY <1>1, <2>1, ErasingStep
<1>5. CASE WriteBody
  <2>1. op.pc = "body" /\ UNCHANGED <<saves, acked>> /\ Write(p, op.slot, Torn)
    BY <1>2, <1>5 DEF WriteBody
  <2>2. op.slot \in Slot
    BY <2>1 DEF IInv, TypeOK
  <2> QED BY <1>2, <2>1, <2>2, KeepingStep
<1>6. CASE WriteCommit
  <2>1. /\ op.pc = "commit" /\ UNCHANGED saves /\ Write(p, op.slot, Written)
        /\ acked' \in {acked, [acked EXCEPT ![firmware] = saves]}
    BY <1>2, <1>6 DEF WriteCommit, Saved
  <2>2. op.slot \in Slot
    BY <2>1, WrittenType
  <2> QED BY <1>2, <1>3, <2>1, <2>2, AddingStep
<1>7. CASE EraseOld
  <2>1. PICK q \in Page : q = Other(p)
    BY OtherPage
  <2>2. op.pc = "old" /\ UNCHANGED saves /\ q = Erased /\ Erasing(q, cells)
    BY <1>2, <1>7, <2>1 DEF EraseOld, Erased, Saved
  <2> HIDE DEF cells
  <2> QED BY <1>1, <2>2, ErasingStep
<1>8. CASE UNCHANGED flash
  <2>1. Keeps
    BY <1>8 DEF Keeps, Cell
  <2> QED BY <2>1, Typed, KeepsRises
<1>9. CASE Damaged /\ UNCHANGED saves
  BY <1>9, DamagedStep
<1>10. ASSUME NEW eligible \in BOOLEAN, Process(eligible) PROVE UNCHANGED flash
  BY <1>10 DEF Process, StartSave
<1>11. StateRefused \/ Elapse => UNCHANGED flash
  BY DEF StateRefused, Elapse
<1>12. Fails => Damaged /\ UNCHANGED saves
  BY DEF Fails
<1>13. \A f \in Firmware : Restart(f) => (Damaged \/ UNCHANGED flash) /\ UNCHANGED saves
  BY DEF Restart
<1> QED
  BY <1>4, <1>5, <1>6, <1>7, <1>8, <1>9, <1>10, <1>11, <1>12, <1>13 DEF Next, SaveStep

(***************************************************************************)
(* In no step, failed, cut off or of a restart, does the record that       *)
(* pyronet_bsec_state_store_load would find for the running firmware       *)
(* become an older one, nor is there none when there was one: not even the *)
(* saves whose outcome save did not learn are taken back.                  *)
(***************************************************************************)
THEOREM StoreLoadNeverGoesBack == Spec => [][Rises]_vars
  BY StoreInvariant, RisesStep, PTL DEF Spec
=============================================================================
