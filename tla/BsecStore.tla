----------------------------- MODULE BsecStore -----------------------------
(***************************************************************************)
(* How the sensor node keeps what the air-quality library has learned      *)
(* across restarts (firmware/sensor_mcu/services/air_quality/              *)
(* bsec_service.c, bsec_state_store.c).  Two flash pages hold records; a   *)
(* save goes to an empty slot of the page that has the newest record of    *)
(* the running firmware (its configuration and library version), or, when  *)
(* that page is full, erases the other page, writes there and erases the   *)
(* full one.                                                               *)
(*                                                                         *)
(* A step is one operation of the flash: an erase, the write of a record   *)
(* up to its commit word, the write of that word.  Each can fail, and the  *)
(* power can go before, in or after it (MaxFaults of both together): an    *)
(* erase then leaves any of the slots it should have cleared, whole or     *)
(* torn, and a write leaves a torn slot or one that has not been touched.  *)
(* After a loss of power another firmware may run.                         *)
(*                                                                         *)
(* The state a save writes is the number of the save: what it is told by   *)
(* the library is newer each time.                                         *)
(***************************************************************************)
EXTENDS Integers

CONSTANTS Firmware,       \* pairs of config_crc and bsec_version
          Slots,          \* records that fit in a page
          Empty, Torn,    \* a slot that is erased; one without valid record
          MaxSaves,       \* bound: saves begun
          MaxFaults       \* bound: failures and losses of power

Slot == 1..Slots
Page == 0..1
Record == [firmware : Firmware, sequence : 1..MaxSaves, state : 1..MaxSaves]

ASSUME StoreAssumption ==
    /\ Slots \in Nat \ {0}
    /\ MaxSaves \in Nat
    /\ MaxFaults \in Nat
    /\ Empty # Torn
    /\ {Empty, Torn} \cap Record = {}

VARIABLES
    flash,       \* the two pages
    firmware,    \* the one that runs
    op,          \* where pyronet_bsec_state_store_save is, and what it writes where
    saved,       \* bsec_state_saved_this_boot
    calibrated,  \* bsec_state_calibrated_previous
    due,         \* BSEC_SERVICE_STATE_SAVE_INTERVAL_NS has passed since the last save
    saves,       \* saves begun
    acked,       \* history: firmware -> its last save that was successful
    kept,        \* history: flash has what is wanted there: a save since the
                 \* library was last calibrated and the last one became due
    faults

serviceVars == <<saved, calibrated, due>>
vars == <<flash, firmware, op, serviceVars, saves, acked, kept, faults>>

Cell(p, s) == flash[p][s]

\* record_valid: what is neither empty nor torn has its commit word and its
\* CRC, and belongs to f.
Holds(p, s, f) == Cell(p, s) \notin {Empty, Torn} /\ Cell(p, s).firmware = f
Found(f) == \E p \in Page, s \in Slot : Holds(p, s, f)

\* scan: place of the record with the highest sequence
IsNewest(p, s, f) ==
    /\ Holds(p, s, f)
    /\ \A q \in Page, t \in Slot : Holds(q, t, f) => Cell(q, t).sequence <= Cell(p, s).sequence

Idle == [pc |-> "idle", page |-> 0, slot |-> 0, sequence |-> 0, rotates |-> FALSE]

Init ==
    /\ flash = [p \in Page |-> [s \in Slot |-> Empty]]
    /\ firmware \in Firmware
    /\ op = Idle
    /\ saved = FALSE
    /\ calibrated = FALSE
    /\ due = FALSE
    /\ saves = 0
    /\ acked = [f \in Firmware |-> 0]
    /\ kept = FALSE
    /\ faults = 0

Fault ==
    /\ faults < MaxFaults
    /\ faults' = faults + 1

----------------------------------------------------------------------------
(* save: a scan, then up to four operations of the flash.                  *)

Other(p) == 1 - p
HasEmpty(p) == \E s \in Slot : Cell(p, s) = Empty

\* Mutant: the first slot without a valid record
IsFirstFree(p, s) ==
    /\ Cell(p, s) \in {Empty, Torn}
    /\ \A t \in 1..s - 1 : Cell(p, t) \notin {Empty, Torn}

\* find_empty_slot
IsFirstEmpty(p, s) == Cell(p, s) = Empty /\ \A t \in 1..s - 1 : Cell(p, t) # Empty

\* Mutant: the sequence of the newest record again
SameSequence(sequence) == sequence

NextSequence(sequence) == sequence + 1

\* scan.page_index, or the first page, and the sequence that was found
Scanned(p, sequence) ==
    \/ \E s \in Slot : IsNewest(p, s, firmware) /\ sequence = Cell(p, s).sequence
    \/ ~Found(firmware) /\ p = 0 /\ sequence = 0

\* Mutant: the page that is full is erased at once
RotatedInPlace(p) == p

\* (page_index + 1U) % PYRONET_BSEC_STATE_STORE_PAGE_COUNT
Rotated(p) == Other(p)

\* save up to its first operation
StartSave ==
    /\ saves < MaxSaves
    /\ saves' = saves + 1
    /\ \E p \in Page, n \in 0..MaxSaves :
         /\ Scanned(p, n)
         /\ \/ \E s \in Slot :
                 /\ IsFirstEmpty(p, s)
                 /\ op' = [pc |-> "body", page |-> p, slot |-> s,
                           sequence |-> NextSequence(n), rotates |-> FALSE]
            \/ /\ ~HasEmpty(p)
               /\ op' = [pc |-> "erase", page |-> Rotated(p), slot |-> 1,
                         sequence |-> NextSequence(n), rotates |-> Found(firmware)]
    /\ UNCHANGED <<flash, firmware, acked>>

\* A page that is erased may have held the saves of another firmware.
Erasing(p, cells) ==
    /\ flash' = [flash EXCEPT ![p] = cells]
    /\ acked' = [f \in Firmware |-> IF f = firmware THEN acked[f] ELSE 0]

\* What an erase that fails or is cut off leaves
LeftBy(p, cleared, torn) ==
    [s \in Slot |-> IF s \in cleared \/ Cell(p, s) = Empty THEN Empty
                    ELSE IF s \in torn THEN Torn ELSE Cell(p, s)]

Write(p, s, cell) == flash' = [flash EXCEPT ![p][s] = cell]
Go(pc) == op' = [op EXCEPT !.pc = pc]

\* erase_page, after which its first slot is empty
Erase ==
    /\ op.pc = "erase"
    /\ Erasing(op.page, [s \in Slot |-> Empty])
    /\ Go("body")
    /\ UNCHANGED <<firmware, serviceVars, saves, kept, faults>>

\* write_record up to the commit word
WriteBody ==
    /\ op.pc = "body"
    /\ Write(op.page, op.slot, Torn)
    /\ Go("commit")
    /\ UNCHANGED <<firmware, serviceVars, saves, acked, kept, faults>>

Written == [firmware |-> firmware, sequence |-> op.sequence, state |-> saves]

\* maybe_save_state after a save that was successful
Saved ==
    /\ op' = Idle
    /\ saved' = TRUE
    /\ due' = FALSE
    /\ UNCHANGED <<firmware, calibrated, saves, faults>>

\* The commit word; without a full page to erase the save is done.
WriteCommit ==
    /\ op.pc = "commit"
    /\ Write(op.page, op.slot, Written)
    /\ acked' = [acked EXCEPT ![firmware] = saves]
    /\ kept' = TRUE
    /\ \/ op.rotates /\ Go("old") /\ UNCHANGED <<firmware, serviceVars, saves, faults>>
       \/ ~op.rotates /\ Saved

\* The full page is erased; whether that works is ignored.
EraseOld ==
    /\ op.pc = "old"
    /\ Erasing(Other(op.page), [s \in Slot |-> Empty])
    /\ UNCHANGED kept
    /\ Saved

\* What is left of the operation that is under way when it goes wrong
Damaged ==
    \/ /\ op.pc \in {"erase", "old"}
       /\ LET p == IF op.pc = "erase" THEN op.page ELSE Other(op.page)
          IN  \E cleared, torn \in SUBSET Slot : Erasing(p, LeftBy(p, cleared, torn))
    \/ /\ op.pc = "body"
       /\ \E cell \in {Empty, Torn} : Write(op.page, op.slot, cell)
       /\ UNCHANGED acked
    \/ /\ op.pc = "commit"
       /\ \E cell \in {Torn, Written} : Write(op.page, op.slot, cell)
       /\ UNCHANGED acked

\* Mutant: what comes after save takes it for successful
FailsTakenForSaved ==
    /\ Fault
    /\ Damaged
    /\ op' = Idle
    /\ saved' = TRUE
    /\ due' = FALSE
    /\ UNCHANGED <<firmware, calibrated, saves, kept>>

\* An operation fails: save returns its status, or goes on if it was the last.
Fails ==
    /\ Fault
    /\ Damaged
    /\ \/ /\ op.pc = "old"
          /\ op' = Idle
          /\ saved' = TRUE
          /\ due' = FALSE
       \/ /\ op.pc # "old"
          /\ op' = Idle
          /\ UNCHANGED <<saved, due>>
    /\ UNCHANGED <<firmware, calibrated, saves, kept>>

----------------------------------------------------------------------------
(* The service                                                             *)

\* Eligible, and the first of this boot, calibrated again or due
Wants(eligible) == eligible /\ (~saved \/ ~calibrated \/ due)

\* A state that is calibrated again is to be saved.
KeptWhile(eligible) == kept' = (kept /\ (eligible => calibrated))

\* bsec_service_process: the outputs are eligible to be saved or are not.
Process(eligible) ==
    /\ op.pc = "idle"
    /\ calibrated' = eligible
    /\ KeptWhile(eligible)
    /\ \/ Wants(eligible) /\ StartSave
       \/ ~Wants(eligible) /\ UNCHANGED <<flash, firmware, op, saves, acked>>
    /\ UNCHANGED <<saved, due, faults>>

\* bsec_get_state refuses.
StateRefused ==
    /\ op.pc = "idle"
    /\ Wants(TRUE)
    /\ Fault
    /\ calibrated' = TRUE
    /\ KeptWhile(TRUE)
    /\ UNCHANGED <<flash, firmware, op, saved, due, saves, acked>>

Elapse ==
    /\ op.pc = "idle"
    /\ saved /\ ~due
    /\ due' = TRUE
    /\ kept' = FALSE
    /\ UNCHANGED <<flash, firmware, op, saved, calibrated, saves, acked, faults>>

\* The power goes; bsec_service_init with restore_state, whose record the
\* library may refuse.
Restart(f) ==
    /\ Fault
    /\ \/ Damaged
       \/ op.pc = "idle" /\ UNCHANGED <<flash, acked>>
    /\ firmware' = f
    /\ op' = Idle
    /\ saved' \in {FALSE, Found(f)'}
    /\ calibrated' = saved'
    /\ kept' = saved'
    /\ due' = FALSE
    /\ UNCHANGED saves

----------------------------------------------------------------------------
SaveStep == Erase \/ WriteBody \/ WriteCommit \/ EraseOld

Next ==
    \/ SaveStep
    \/ \E eligible \in BOOLEAN : Process(eligible)
    \/ StateRefused
    \/ Elapse
    \/ Fails
    \/ \E f \in Firmware : Restart(f)

Spec == Init /\ [][Next]_vars

\* The main loop goes on: an operation of the flash ends, and a node whose
\* outputs stay eligible is processed again.
Fairness == WF_vars(SaveStep \/ Process(calibrated))

FairSpec == Spec /\ Fairness

----------------------------------------------------------------------------
(* Properties                                                              *)

\* Cells, flags and the save under way keep their shape, and what is written
\* is an erased slot first and its body next: flash takes no other write
\* (pyronet_bsec_state_store_find_empty_slot, _write_record).
TypeOK ==
    /\ flash \in [Page -> [Slot -> Record \cup {Empty, Torn}]]
    /\ firmware \in Firmware
    /\ op \in [pc : {"idle", "erase", "body", "commit", "old"}, page : Page,
               slot : 0..Slots, sequence : 0..MaxSaves, rotates : BOOLEAN]
    /\ op.pc \in {"body", "commit"} => op.slot \in Slot
    /\ op.pc = "body" => Cell(op.page, op.slot) = Empty
    /\ op.pc = "commit" => Cell(op.page, op.slot) = Torn
    /\ {saved, calibrated, due, kept} \subseteq BOOLEAN
    /\ saves \in 0..MaxSaves
    /\ acked \in [Firmware -> 0..MaxSaves]
    /\ faults \in 0..MaxFaults

\* A save that was successful is not lost: whenever the power goes, in
\* whatever operation, the newest record of the firmware is of its last
\* successful save or of a later one.  (Of another firmware only until a page
\* is erased.)
SavedSurvives ==
    \A f \in Firmware : acked[f] # 0 =>
        \E p \in Page, s \in Slot : IsNewest(p, s, f) /\ Cell(p, s).state >= acked[f]

\* The sequence numbers of a firmware tell its saves apart and order them as
\* they were made, across failed saves, rotations and restarts.
SequenceOrdersSaves ==
    \A p, q \in Page, s, t \in Slot, f \in Firmware :
        Holds(p, s, f) /\ Holds(q, t, f) =>
            /\ Cell(p, s).sequence = Cell(q, t).sequence => p = q /\ s = t
            /\ Cell(p, s).sequence < Cell(q, t).sequence => Cell(p, s).state < Cell(q, t).state

\* What is wanted in flash gets there, unless the node loses the calibration:
\* of a node that has saved nothing since it started or whose save is due,
\* however often operations fail; after the failed save of a node that is
\* calibrated again, which the service does not repeat at once, when the next
\* one becomes due (bsec_service_maybe_save_state).
CalibratedIsSaved ==
    LET given == kept \/ ~calibrated \/ saves = MaxSaves IN
    /\ (calibrated /\ ~kept /\ (~saved \/ due)) ~> given
    /\ WF_vars(Elapse) => (calibrated /\ ~kept ~> given)
=============================================================================
