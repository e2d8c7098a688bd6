------------------------------ MODULE BootState ------------------------------
(***************************************************************************)
(* The Boot State store: components/boot_v2/src/abox_boot_v2_state.c.      *)
(*                                                                         *)
(* Two Flash pages hold the 112-byte record.  StateSave erases the page    *)
(* that is invalid or older and writes the new record into it word by      *)
(* word; the CRC is the last word, so a page is valid only once all its    *)
(* words are there.  StateLoad takes the valid page with the higher        *)
(* sequence.  Each Flash operation is a step, so a power loss or a Flash   *)
(* error can come between any two of them.                                 *)
(***************************************************************************)
EXTENDS Naturals

CONSTANTS Record,      \* the contents a record can have
          NoRecord,    \* StateLoad's answer when no page is valid
          Words,       \* words of a record (28 in the code)
          MaxSequence  \* bound: saves stop at this sequence number, far below
                       \* 2^32; a page endures about 10^4 erases

ASSUME BootStateAssumption ==
    /\ NoRecord \notin Record
    /\ Words \in Nat \ {0}
    /\ MaxSequence \in Nat \ {0}

VARIABLES page,        \* the two Flash pages
          pc,          \* the step StateSave is at, "idle" outside of it
          next,        \* StateSave's `next`: the record it writes
          target,      \* StateSave's `address`: the page it writes to
          result       \* what the last StateSave returned

vars == <<page, pc, next, target, result>>

Page == {"A", "B"}
Other(p) == IF p = "A" THEN "B" ELSE "A"

(* A page holds the first `words` words of a record.  `intact` is false    *)
(* when one of them does not read back as it was written.                  *)
Content == [words : 0..Words, intact : BOOLEAN, sequence : Nat, data : Record]

(* valid(): the magic, version, length and CRC of a page all agree.        *)
valid(c) == c.words = Words /\ c.intact

Blank(r) == [words |-> 0, intact |-> TRUE, sequence |-> 0, data |-> r]
Erased(c) == Blank(c.data)

-----------------------------------------------------------------------------
(* StateLoad: the page it answers from, and the record it answers.         *)
Loadable == \E p \in Page : valid(page[p])

Selected == IF ~valid(page["B"]) \/ (/\ valid(page["A"])
                                      /\ page["A"].sequence >= page["B"].sequence)
            THEN "A" ELSE "B"

StateLoad == IF Loadable THEN page[Selected].data ELSE NoRecord

(* Faulty variant of StateSave: always the first page.                     *)
SaveTargetFirst == "A"

(* StateSave: the sequence and the page of the next record.                *)
NextSequence == IF Loadable THEN page[Selected].sequence + 1 ELSE 1

SaveTarget == IF ~valid(page["A"]) THEN "A"
              ELSE IF ~valid(page["B"]) THEN "B"
              ELSE IF page["A"].sequence <= page["B"].sequence THEN "A" ELSE "B"

-----------------------------------------------------------------------------
Init == /\ \E r \in Record : /\ page = [p \in Page |-> Blank(r)]
                             /\ next = [sequence |-> 0, data |-> r]
        /\ pc = "idle"
        /\ target = "A"
        /\ result = "none"

(* StateSave(r) reads both pages, prepares the record, unlocks the Flash.  *)
SaveBegin(r) == /\ pc = "idle"
                /\ NextSequence <= MaxSequence
                /\ next' = [sequence |-> NextSequence, data |-> r]
                /\ target' = SaveTarget
                /\ pc' = "erase"
                /\ result' = "none"
                /\ UNCHANGED page

(* A page cannot be read, or FlashBegin fails: nothing was touched.        *)
SaveRefused == /\ pc = "idle"
               /\ result' = "failed"
               /\ UNCHANGED <<page, pc, next, target>>

ErasePage == /\ pc = "erase"
             /\ page' = [page EXCEPT ![target] = Erased(@)]
             /\ pc' = "write"
             /\ UNCHANGED <<next, target, result>>

(* A failed erase leaves the page as it was or without a valid record.     *)
EraseFails == /\ pc = "erase"
              /\ page' \in {page, [page EXCEPT ![target] = Erased(@)]}
              /\ pc' = "idle"
              /\ result' = "failed"
              /\ UNCHANGED <<next, target>>

(* The page after its next word was programmed; `good` says whether the    *)
(* word reads back as it was written.                                      *)
Programmed(good) ==
    [page EXCEPT ![target] = [words    |-> @.words + 1,
                              intact   |-> @.intact /\ good,
                              sequence |-> next.sequence,
                              data     |-> next.data]]

WriteWord == /\ pc = "write"
             /\ page[target].words < Words
             /\ \E good \in BOOLEAN : page' = Programmed(good)
             /\ pc' = IF page[target].words + 1 = Words THEN "verify" ELSE "write"
             /\ UNCHANGED <<next, target, result>>

(* FlashWrite reports an error; the word may have been programmed or not.  *)
WriteFails == /\ pc = "write"
              /\ page[target].words < Words
              /\ page' \in {page, Programmed(TRUE), Programmed(FALSE)}
              /\ pc' = "idle"
              /\ result' = "failed"
              /\ UNCHANGED <<next, target>>

(* The read-back that decides what StateSave returns.                      *)
ReadBack == /\ valid(page[target])
            /\ page[target].sequence = next.sequence
            /\ page[target].data = next.data

Verify == /\ pc = "verify"
          /\ result' = IF ReadBack THEN "saved" ELSE "failed"
          /\ pc' = "idle"
          /\ UNCHANGED <<page, next, target>>

(* The read-back itself fails: the record is there, the caller hears "failed". *)
VerifyFails == /\ pc = "verify"
               /\ pc' = "idle"
               /\ result' = "failed"
               /\ UNCHANGED <<page, next, target>>

(* The processor stops, at any step, and starts again.                     *)
PowerLoss == /\ pc' = "idle"
             /\ result' = "none"
             /\ UNCHANGED <<page, next, target>>

Next == \/ \E r \in Record : SaveBegin(r)
        \/ SaveRefused
        \/ ErasePage \/ EraseFails
        \/ WriteWord \/ WriteFails
        \/ Verify \/ VerifyFails
        \/ PowerLoss

Spec == Init /\ [][Next]_vars
-----------------------------------------------------------------------------
(* Type correctness of the store's two pages and of a running StateSave.   *)
TypeOK == /\ page \in [Page -> Content]
          /\ pc \in {"idle", "erase", "write", "verify"}
          /\ next \in [sequence : Nat, data : Record]
          /\ target \in Page
          /\ result \in {"none", "saved", "failed"}

(* Two valid pages never carry the same sequence, so StateLoad's choice    *)
(* and StateSave's choice of a victim always name different pages          *)
(* (state.c:32 against state.c:46).                                        *)
SequencesDiffer == (\A p \in Page : valid(page[p]))
                       => page["A"].sequence # page["B"].sequence

(* While StateSave runs, the page it erases and writes is never the one    *)
(* that carries the current record: a crash at any word keeps a record.    *)
SparePageOnly == (pc \in {"erase", "write"} /\ Loadable) => target # Selected

(* What a successful StateSave wrote is what the next StateLoad answers.   *)
SavedIsLoaded == (pc = "idle" /\ result = "saved") => StateLoad = next.data

(* The store implements the atomic record: the saved content takes effect  *)
(* at the word that makes its page valid, in no other step, or never.      *)
Atomic == INSTANCE AtomicRecord
            WITH stored <- StateLoad,
                 saving <- IF pc = "idle" THEN NoRecord ELSE next.data

ImplementsAtomicRecord == Atomic!Spec
=============================================================================
