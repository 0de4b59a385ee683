-------------------------- MODULE BootLoaderProofs --------------------------
(***************************************************************************)
(* Proofs about BootLoader for every disk layout, every firmware list that *)
(* fits the buffer and any number of warm resets.                          *)
(*                                                                         *)
(* KernelStartsClean and MapHandedOver speak of the moment the kernel is   *)
(* entered.  To get there the invariant follows the loader: LoadedInv from *)
(* the disk read on, ListInv through the E820 loop, where the continuation *)
(* value of the BIOS and the slots filled count the same entries.          *)
(***************************************************************************)
EXTENDS BootLoader, TLAPS

\* The firmware of this boot is one of those considered.
FirmwareInv == firmware \in [map : FirmwareMaps, ending : Endings]

\* What LoadKernel put into memory is there until the kernel runs.
LoadedInv ==
    pc \in {"e820", "e820_done", "switch", "entry"} /\ dl = "0x80" =>
      /\ \A s \in Sectors : s < IMAGE_SECTORS => memory[s] = "image"
      /\ \A s \in ZeroStatics : memory[s] = "zero"

\* The E820 loop has copied the first entries of this boot's list, and when it
\* ends it has copied all of them.
ListInv ==
    /\ pc = "e820" => ebx = di /\ di = memmap_count
    /\ pc \in {"e820", "e820_done", "switch", "entry"} =>
         /\ memmap_count <= Len(firmware.map)
         /\ \A k \in 1 .. memmap_count : e820_map[k] = firmware.map[k]
    /\ pc \in {"e820_done", "switch", "entry"} => memmap_count = Len(firmware.map)
    /\ pc \in {"switch", "entry"} => e820_count = memmap_count

BootInv == BootTypeOK /\ FirmwareInv /\ LoadedInv /\ ListInv

\* Every list fits the buffer.
LEMMA MapFits ==
    ASSUME FirmwareInv
    PROVE  /\ firmware.map \in Seq(STRING)
           /\ Len(firmware.map) \in 0 .. MapSlots
           /\ MapSlots \in Nat
  BY BootAssumption DEF FirmwareInv

\* The loader starts with the invariant.
LEMMA BootInit == Init => BootInv
  BY BootAssumption DEF Init, BootInv, BootTypeOK, FirmwareInv, LoadedInv, ListInv

\* One entry is copied, and the loop goes on or ends.
LEMMA EntryStep ==
    ASSUME BootInv, E820Entry
    PROVE  BootTypeOK' /\ ListInv'
  <1>1. /\ pc = "e820" /\ ebx + 1 <= Len(firmware.map)
        /\ e820_map' = [e820_map EXCEPT ![di + 1] = firmware.map[ebx + 1]]
        /\ di' = di + 1 /\ memmap_count' = memmap_count + 1
        /\ ebx' = Continuation
        /\ pc' = IF Continuation = 0 THEN "e820_done" ELSE "e820"
        /\ UNCHANGED <<memory, dl, firmware, e820_count>>
    BY DEF E820Entry, Reported, biosVars
  <1>2. /\ ebx = di /\ di = memmap_count /\ di \in Nat
        /\ \A k \in 1 .. di : e820_map[k] = firmware.map[k]
    BY <1>1 DEF BootInv, ListInv, BootTypeOK
  <1>3. Len(firmware.map) \in 0 .. MapSlots /\ MapSlots \in Nat
    BY MapFits DEF BootInv
  <1>4. di + 1 \in 1 .. MapSlots
    BY <1>1, <1>2, <1>3
  <1>5. Continuation = IF di + 1 = Len(firmware.map) /\ firmware.ending = "last"
                       THEN 0 ELSE di + 1
    BY <1>2 DEF Continuation
  <1>6. BootTypeOK'
    BY <1>1, <1>2, <1>3, <1>4, <1>5 DEF BootInv, BootTypeOK
  <1>7. \A k \in 1 .. di + 1 : e820_map'[k] = firmware.map[k]
    <2>1. DOMAIN e820_map = 1 .. MapSlots
      BY DEF BootInv, BootTypeOK
    <2>2. \A k \in 1 .. MapSlots : e820_map'[k] =
            IF k = di + 1 THEN firmware.map[di + 1] ELSE e820_map[k]
      BY <1>1, <1>2, <2>1
    <2>3. \A k \in 1 .. di + 1 : k \in 1 .. MapSlots /\ (k = di + 1 \/ k \in 1 .. di)
      BY <1>2, <1>3, <1>4
    <2>. QED  BY <1>2, <2>2, <2>3
  <1>8. memmap_count' = di + 1 /\ di + 1 <= Len(firmware.map')
    BY <1>1, <1>2
  <1>9. CASE Continuation = 0
    <2>1. pc' = "e820_done" /\ di + 1 = Len(firmware.map')
      BY <1>1, <1>2, <1>5, <1>9
    <2>. QED  BY <1>1, <1>6, <1>7, <1>8, <2>1 DEF ListInv
  <1>10. CASE Continuation # 0
    <2>1. pc' = "e820" /\ ebx' = di'
      BY <1>1, <1>5, <1>10
    <2>. QED  BY <1>1, <1>6, <1>7, <1>8, <2>1 DEF ListInv
  <1>. QED  BY <1>9, <1>10

\* Every step of the loader, the kernel and the reset keeps the invariant.
LEMMA BootStep == BootInv /\ [Next]_vars => BootInv'
  <1>. SUFFICES ASSUME BootInv, [Next]_vars  PROVE BootInv'
    OBVIOUS
  <1>. USE DEF BootInv, biosVars, mapVars
  <1>0. MapSlots \in Nat /\ Len(firmware.map) \in 0 .. MapSlots
    BY MapFits
  <1>1. CASE LoadKernel
    <2>1. /\ memory' = [s \in Sectors |-> IF s < LOAD_SECTORS THEN KernelOnDisk(s) ELSE memory[s]]
          /\ ebx' = 0 /\ di' = 0 /\ memmap_count' = 0 /\ pc' = "e820"
          /\ UNCHANGED <<dl, firmware, e820_map, e820_count>>
      BY <1>1 DEF LoadKernel
    <2>2. memory' \in [Sectors -> {"image", "zero", "foreign", "dirty"}]
      BY <2>1 DEF BootTypeOK, KernelOnDisk
    <2>3. BootTypeOK'
      BY <1>0, <2>1, <2>2 DEF BootTypeOK
    <2>4. LoadedInv'
      <3>1. \A s \in ZeroStatics : s \in Sectors /\ s < LOAD_SECTORS /\ ~(s < IMAGE_SECTORS)
        BY BootAssumption DEF BssSectors, Sectors
      <3>2. \A s \in Sectors : s < IMAGE_SECTORS => s < LOAD_SECTORS
        BY BootAssumption DEF Sectors
      <3>. QED  BY <2>1, <3>1, <3>2 DEF LoadedInv, KernelOnDisk, Sectors
    <2>5. FirmwareInv' /\ ListInv'
      BY <1>0, <2>1 DEF FirmwareInv, ListInv
    <2>. QED  BY <2>3, <2>4, <2>5
  <1>2. CASE E820Entry
    <2>1. FirmwareInv' /\ LoadedInv'
      BY <1>2 DEF E820Entry, FirmwareInv, LoadedInv
    <2>. QED  BY <1>2, <2>1, EntryStep
  <1>3. CASE E820Fails
    <2>1. memmap_count = Len(firmware.map)
      BY <1>0, <1>3 DEF E820Fails, Reported, ListInv, BootTypeOK
    <2>. QED  BY <1>3, <2>1 DEF E820Fails, BootTypeOK, FirmwareInv, LoadedInv, ListInv
  <1>4. CASE E820Done
    BY <1>4 DEF E820Done, BootTypeOK, FirmwareInv, LoadedInv, ListInv
  <1>5. CASE EnterKernel
    BY <1>5 DEF EnterKernel, BootTypeOK, FirmwareInv, LoadedInv, ListInv
  <1>6. CASE KernelRuns
    <2>1. memory' \in [Sectors -> {"image", "zero", "foreign", "dirty"}]
      BY <1>6 DEF KernelRuns, BootTypeOK
    <2>. QED  BY <1>6, <2>1 DEF KernelRuns, BootTypeOK, FirmwareInv, LoadedInv, ListInv
  <1>7. CASE LoadStage2
    BY <1>0, <1>7 DEF LoadStage2, BootTypeOK, FirmwareInv, LoadedInv, ListInv
  <1>8. CASE CheckExtensions
    BY <1>8 DEF CheckExtensions, BootTypeOK, FirmwareInv, LoadedInv, ListInv
  <1>9. CASE Hang
    BY <1>9 DEF Hang, BootTypeOK, FirmwareInv, LoadedInv, ListInv
  <1>10. CASE WarmReset
    BY <1>10 DEF WarmReset, Bios, BootTypeOK, FirmwareInv, LoadedInv, ListInv
  <1>11. CASE UNCHANGED vars
    BY <1>11 DEF vars, BootTypeOK, FirmwareInv, LoadedInv, ListInv
  <1>. QED  BY <1>1, <1>2, <1>3, <1>4, <1>5, <1>6, <1>7, <1>8, <1>9, <1>10, <1>11
            DEF Next, Loader, LoadStage2Fails, NotSupported, LoadKernelFails, Halted

\* The invariant holds over any number of boots.
THEOREM BootInvHolds == Spec => []BootInv
  BY BootInit, BootStep, PTL DEF Spec

\* The E820 loop of stage 2 never writes past the buffer, for every list of at
\* most MapSlots entries and either way of ending it.
THEOREM BootTypeCorrect == Spec => []BootTypeOK
  <1>1. BootInv => BootTypeOK
    BY DEF BootInv
  <1>. QED  BY <1>1, BootInvHolds, PTL

\* For every layout in which the statics lie within the sectors read, each boot
\* from the first hard disk enters a fresh image with those statics zero.
THEOREM StartsClean == Spec => []KernelStartsClean
  <1>1. BootInv => KernelStartsClean
    BY DEF BootInv, LoadedInv, KernelStartsClean
  <1>. QED  BY <1>1, BootInvHolds, PTL

\* For every firmware list and both endings, the kernel gets this boot's list,
\* whole and in order.
THEOREM HandsOverMap == Spec => []MapHandedOver
  <1>1. BootInv => MapHandedOver
    BY DEF BootInv, ListInv, MapHandedOver
  <1>. QED  BY <1>1, BootInvHolds, PTL

=============================================================================
