# Hecuba in TLA+

Hecuba images a PRIAM DISKOS 3450 disk drive. A Pico 2 W (`firmware/`) speaks
the drive's register bus and captures raw tracks; Python tools (`software/`)
drive its console, decode the captures, and keep an image directory that is
repaired, offline, for as long as better decoders turn up. This directory
specifies both ends, the link between them and the decoding in between, and
checks them: TLC on small instances, TLAPS for every value of the constants
where there is a theorem.

## Inventory

| Component | State | Operations | What is hard |
|---|---|---|---|
| `sweep.py`, imaging | `manifest.json`, `tracks/`, `raw/`; the track being read | select, seed from an earlier visit, read until done or dry, archive, write the track, record it | killed between any two file operations; resumed; revisits that union with earlier results |
| `vote_repair.py`, `rescue.py`, `deep_rescue.py` | the same files; a copy of the manifest | recover missing sectors of listed tracks from `raw/`, patch the track file, checkpoint the manifest | any order and number of runs; manifest saved every 25 or 50 tracks, track files at once |
| `sweep.py`, `Console` | the serial session | command, wait for the prompt, capture + dump | timeouts, a host that restarts while the firmware is busy |
| `decode_scout.py` | the dictionary of a track | headers, data fields, ECC, burst correction, diagnosis of what is missing | bit positions, anchors that damage moves, wrong-track captures, a burst at the seam of field and ECC |
| decoding in the repair tools | votes, slot map, windows, conflicts | vote of a sector, attribution by position, search without an anchor, slip repair | reads that agree on something wrong, two revolutions, headers of another head or cylinder |
| `capture.c`, `.pio` | track buffer, PIO FIFO and shift register, DMA count, gating settings, the inter-core FIFOs | request/answer between the cores, INDEX wait, sampling, gate pulses | two cores and two hardware engines without a lock; two timeouts |
| `priam_bus.c` | the drive's registers and lines | seek, sequence up and down, head, gate, wait for status | the drive is slow, faults, rejects; bits that are invalid while BUSY |
| `host_cli.c` | line buffer | the console commands, the staircase | starting a command on a busy drive; typed numbers |
| `priam_bus.c`, `board_pins.h` | the pins, the transceiver U1 | register reads and writes, init, reset | two drivers on one bus; strobes that are asserted while pins are set up |
| `main.c` | LED, banner, `connected` | main loop: the banner on connect, one command at a time | what is printed to nobody, and what waits for the next host |
| `irmx_fs.py` | the walk's dictionary and list | walk the recovered file system, report damage | loops; fnodes and pointer blocks that are lost |
| `defect_map.py` | the bad-track table | find the table, split the losses, attribute them | an image with holes; conclusions from losses alone |
| `hardware/` | - | KiCad board | - |

The host talks to the console over USB serial (`capture C H`, then `dumpb64`);
the console calls the bus operations, opens -READ GATE and asks core1 for a
capture over the inter-core FIFO; core1 answers with a word count. The offline
tools meet `sweep.py` only in the image directory. What makes each correct is
the list of hazards in `PROJECT.json`, each with the properties that would
catch it.

## Modules

- **ImageStore**: the image directory and the four tools that write it.
- **Archive**: what the directory promises a reader; ImageStore implements it.
- **Capture**: both cores, the inter-core FIFOs, PIO, DMA and gate pulses.
- **CaptureService**: what `capture.h` promises the console; Capture
  implements it.
- **PriamBus**: the console's drive operations, register by register, against
  the drive.
- **BusPins**: one register access, pin operation by pin operation.
- **ConsoleLink**: sessions of `sweep.py` against the firmware's command loop.
- **ErrorTrap**: `correct_burst` on one codeword.
- **AnchorWalk**: the search for a data field behind a header, used by
  **Decoder** (`decode_track` and `classify_missing` on one capture) and by
  **VoteRepair** (the vote of one failed sector).
- **PositionRescue**: `rescue_track`.
- **DeepRescue**: `track_task` and `rescue_sector` of `deep_rescue.py`;
  **SlidingCrc**: the CRC arithmetic under them.
- **Repair**: the three repair tools of a track side by side, one of which is run,
  and what they owe in common. It extends PositionRescue and VoteRepair (whose
  variables and actions are therefore named apart, `vpc`, `VoteNext`) and
  instantiates DeepRescue.
- **Volume**, an iRMX volume with holes, and **FileWalk**, the walk and the
  report on it.
- **DefectMap**: `defect_map.py`, which extends FileWalk as the script uses
  `irmx_fs`.
- **ImageStoreProofs**, **CaptureProofs**, **PriamBusProofs** (with BusPins),
  **ConsoleLinkProofs**, **DecoderProofs**, **DeepRescueProofs**, **RepairProofs**
  (PositionRescue, VoteRepair and Repair), **FileWalkProofs** (with DefectMap): the
  theorems about each.
- **MCImageStore**, **MCCapture**, **MCConsoleLink**, **MCPriamBus**,
  **MCDecoder**, **MCRepair**, **MCReports**: the modules TLC runs on, with the
  values of the instances. The last four check several modules in one run: MCPriamBus PriamBus
  and BusPins, MCDecoder Decoder and ErrorTrap, MCRepair Repair and SlidingCrc,
  MCReports FileWalk and DefectMap. The programs they model do not
  run together: which one does is chosen at the start, the others keep their
  initial state. One property is stated for all that make the same promise:
  `HeldIsFound` is what `rescue.py` and `deep_rescue.py` owe, each in its own
  terms. Type invariants are parts of the properties.

From the platter to the file system they follow each other: BusPins is what
PriamBus takes as one register access; PriamBus and Capture are what ConsoleLink takes
as one command; ConsoleLink shows that the capture ImageStore archives is of
the track it is archived for; ErrorTrap is the ideal ECC of Decoder,
PositionRescue and DeepRescue; Decoder and the three repairs are the constants
`Decode` and the recovered subsets of ImageStore; FileWalk and DefectMap read
what ImageStore kept. Each of these seams is a stated assumption, not an
`INSTANCE`; see the plan.

Definitions marked "mutant" are wrong variants of the definition that follows
them. No specification uses them; each property is broken by one of them (see
`PROJECT.json`), which shows that the property depends on the code.

### ImageStore

`manifest` is the file on disk, `mem` the running tool's copy; `blob[t]` the
track file block by block (a block is named by its sector and by how it was
recovered), with `NoBytes` past the end of a short file; `raw[t][r]` says
whether capture `r` is in `raw/`, and whole. `pc` walks the tool through its
file operations: `OpenBlob` truncates a track file, `WriteBlob` fills it,
`SweepRecord`, `OfflineCount` and `OfflineDone` replace the manifest (atomic in
the code: temporary file and rename). `Crash` is a kill at any of these points.
What a capture decodes to is the constant `Decode`; what an offline tool
recovers is any subset of the sectors it tries, given that it has captures it
can use. Tracks are taken in any order, which covers the code's. `labels` and
`buf` are the two halves of `merged` in `image_track`; `verdict` is the
diagnosis over the captures of the visit. Since `sweep.py` seeds a revisit
from the manifest and slices the track file, both the seeding (`Prior`, `Seed`)
and the join that writes it back (`Image`) are spelled out, with Python's
behaviour on a file that is too short.

Left out: the `reads` field of an entry; what is printed; the `--wiggle` seek
(one more way for a read to fail); the warm-up capture; spin-up and park. One
tool runs at a time: `software/README.md` forbids two.

### Capture

`pc0` is core0 in a console command, `pc1` core1 in `capture_core_main` and
`capture_do`. `rx`, `isr`, `left` and `buf` are the PIO's FIFO and shift
register, the DMA's transfer count and the track buffer. A word is only "now"
(sampled for the latest request), "old" or "none". `late` is the passing of the
deadline of the loop core1 is in; the DMA may finish just before the abort.
A bit lost because the RX FIFO is full is not modelled: the autopush waits.
Pulse widths and offsets, and the clamps on them, are not modelled; the order
of the pulses, and that core1 does nothing else inside one, is.

### PriamBus

One step per register access. The drive (`Takes`, `Strobed`, `DriveDone`,
`SeekFails`, `DriveFaults`, `Status`) is not in the repository: it is modelled
from what `priam_proto.h`, `priam_bus.c` and `firmware/README.md` say of it.
Assumed: BUSY is up when the command strobe ends; COMMAND REJECT set by a
refused write stays until a command is accepted; the bits the header calls
invalid while BUSY read as anything then. The capture itself is one step here;
Capture has the rest.

### BusPins

`latch` and `out` are the output latch and the direction of each pin; DBUS and
the address are groups. `prog` holds the pin operations still to be done, in the
order of the code, `access` what they belong to. A pad out of reset is an input
with a pull-down, and R29 pulls -RESET up (`Level`). A write is what the drive
takes when -WR rises, a read what it sources while -RD is low with U1 turned
to the core. Before the pins are parked the strobes float low at U2, whatever the
firmware does: `NoContention` asks for the drive's side only after boot.

### ConsoleLink

`phase` is the call `main` is in, `waiting` and `buf` are `cmd`'s loop and
buffer; `toFw` and `toHost` are the serial line in both directions; `running`
is the command the firmware executes, `buffer` the track its capture buffer is of.
`Leave` is a kill, a timeout or an exit, at any step; the firmware goes on,
prints to whoever is connected then, and reads the lines that wait. Messages are one
prompt each, except the dump, which is long enough to be cut: a `cmd` that
meets an older prompt returns early, with part of an answer, as the code does.
The text the host looks for is kept (`OK`, `OK:`, `status 0x`, the markers),
including that `OK` may stand in base64.

`RightTrack` and `InStep` hold when a session starts with at most two lines
unanswered (`Backlog`): the discarded warm-up capture and its dump absorb two
answers. With three they fail; a session would have to be killed and restarted
three times within the time of one command. The warm-up is in the code for the
drive's sake (`sweep.py:277`), not for the link's.

### ErrorTrap, AnchorWalk and Decoder

The checksum is linear, so ErrorTrap computes with the error alone: the set of
wrong bits. The register is a set of bit numbers, the stepping down is the
code's. A burst that lies within the field, four bits from the ECC, is undone
and no error of the instance is turned into another; computed apart, no burst
of 5 to 21 bits is miscorrected at the real length of 4136 either.

In Decoder a capture is the sequence of the headers found, each with the field
that follows and the set of its inverted bits, positions counted from the
header. The next sector's field begins within reach of the search only if it
is widened (a mutant does). The ECC is ideal: a field checks where one starts,
and where what is wrong, data or ECC, is one burst that the corrector undoes
(`Mended`). `Undone` of AnchorWalk, which the three repair tools use too, is what ErrorTrap shows
of it: at most four bits long, and not beginning in the last three bits of the data or
in the ECC, where `correct_burst` gives up. The instance has bursts before,
over and behind that seam. Assumed of the disk: the splice's ones contain
no run of 22 zeros. A flip in the preamble's last 16 bits, or in the sync's
three leading zeros, loses the sector; `Recovered` excludes both (`Anchored`).

### VoteRepair

`reads` counts how often each kind of read occurs in all captures; a read is whose
header it has, the ones behind it, and the bits of the field that are wrong.
The tries of a read come from AnchorWalk, are grouped by alignment, filtered
around the medoid (any, of several) and voted; the ECC decides. The sum of the
distances of a read to the others is the number of pairs of another read and a
bit in which the two differ (`Differ`). `LastBurst` is the last bit at which the
vote may still have a burst that `validate` corrects; in the code four bits before the ECC. A limit the
bounds make visible: with three good reads that differ from each other and two
identical far ones, the medoid may be one of the far ones; `FarOff` says how
far off makes that impossible.

### PositionRescue

`raws` are captures of this track, of another head or of another cylinder,
shifted and with any of the given headers readable. `map` is what
`rescue_track` computes of all headers: pitch, slot to sector, nominal
positions, base. The scan then takes field by field, and `shown` remembers
all data ever attributed to a sector. Positions are the code's numbers.
Captures of another head pass the guard (only the cylinder is compared), so
`Rightful` (a part of `OwnSector`) is checked without them.

23 slots of 4656 bits leave 432 of the 107,520 bits of a revolution over
(`Leftover`): the headers of the next one are that much later (`Late`). `rescue.py` knows
nothing of it. A field of one revolution reckoned from a header of the other is
off by 432 of the 600 bits of `SLOT_TOL`, which is why `NothingMissed` asks for captures
within 100 bits of each other (`Tight`); and the gap over the end of the
revolution, 5088 bits, counts as a slot's length. `Rightful` and `NothingMissed`
therefore ask that such gaps be fewer than half of those that count
(`PitchSeen`). Without it the statement is `SectorRecovered`, which the code violates:
see the findings.

### DeepRescue and SlidingCrc

DeepRescue is about one dead sector: which captures qualify, each one's slot
base from its own headers, the windows at both slots of the sector, the three
stages. A window is the set of its ones, cut out of the track bit by bit with the numbers
of the code, so that a neighbour's field in it is visible. `Written` says what a
sector is on the disk, `wrong` which bits of the dead one a capture has wrong;
behind a slip these are all the bits that it displaces and that differ. The ECC is
ideal: it holds for what was written in a field of the window, and for nothing
else, so what `Exact` compares is the field itself. `Burst` is `field_at` at a
place whose sync byte has at most one bit wrong, with the limits of `Undone`. An offset can
have such a byte only if bit 3 or bit 4 of it is a one, which leaves few offsets to look
at (`Tried`). `Lags` is `xcorr_align`: the first of the shifts of up to 200 bits at which the
256 bits behind the sync's nominal place are most alike, if at most 32 of them differ.
`Laid` and `Agreed` are the vote: each window lies where its shift puts it, and
a bit is a one if more than half have one there. `Slipped` says of which
consensus `slip_search` makes a field: up to four bits dropped or three put in.

`HeldIsFound` and `Outvoted` exclude a
capture whose readable headers are mostly of the second revolution: its base is
off by the leftover, more than
`WIN_BEFORE`, and first-revolution fields are missed. `Held` is what one capture
gives: at most one burst, with at most one bit of it in the sync, and not at the seam to the ECC. `Outvoted`
asks that no bit is wrong in two captures, which a slip makes hard for the rest: nothing
behind it, as far as it is displaced there, may be wrong in another. It asks that what is wrong where
`xcorr_align` looks (`Looked`) is within its threshold for any two captures, and that no window of the
next revolution is laid over the first (`Lags(w) = {}`): a sector that is captured
twice has its second field 432 bits later than the window expects, beyond the 200 bits of
the alignment, and such a window must not be taken for alike at another place.
SlidingCrc computes with
polynomials as sets of exponents and compares, for every window of the
instance, with the CRC of the bits themselves. The slip search covers neither
the field's first 8 bits (the sync) nor the ECC.

### Volume, FileWalk and DefectMap

A volume is its fnode table, indirect blocks and directory blocks as they were
written; a lost block reads as zeros. `todo` is the recursion of `walk` as a stack of
entries of the directories it is in, the innermost first. The code visits the
entries of a directory by name; here it visits them in any order, which covers
every naming, and a directory that names an fnode twice names it once: the
second visit would be a LOOP line. `Content` is the volume as it was written
(`ContentAssumption`): with nothing lost a file is read from its own blocks, and
no two files have the same one. `Complete` compares the walk with the least
set that has the root and what its directories name, on condition that no directory
that is listed has lost an indirect block: its list of runs then stops short,
and what is left is read at other offsets. DefectMap reuses the walk. It counts blocks past a file's
size as lost where `irmx_fs.py` does not, so the two reports may name
different damaged files; `RowsTrue` allows it.

## Runs

| Run | Shows | Bounds |
|---|---|---|
| `store_one` | `FullInv` (with `IInv` and `TypeOK`), `BlocksInPlace`, `EvidenceKept`, `NeverOverstated`, `CompleteUntouched`, `ClaimsOnlyGrow`, `ToolEnds` | 1 track, 3 sectors, 2 captures |
| `store_two` | `ClaimedStored`, `ImplementsArchive` | 2 tracks (one on cylinder 0), 2 sectors, 2 captures, checkpoint every 2 tracks |
| `store_manifest_authoritative` | an offline tool killed inside its rewrite of a listed track: the manifest claims what is gone | as `store_one` |
| `store_archive_bit_faithful`, `store_all_recovered` | two more disagreements between code and documentation | as `store_one` |
| `capture` | `IInv` (with `TypeOK`), `Lockstep`, `GateObeyed`, `AnswerTrue`, `ServiceKept`, `CommandEnds` | 3 words of 2 bits, RX FIFO of 2, FIFOs of 2 |
| `bus` | `IInv` (with `TypeOK`), `OnTrack`, `StairVerified`, `SequenceTrue`, `NoBlindRetry`, `FailHasCause`, `PromptReturns`; of BusPins `BusSafe`, `AccessTrue` | 3 cylinders over 2 address bytes, 2 heads, numbers modulo 4; 4 registers, 3 bytes |
| `link` | `RightTrack` (with `IInv`, `TypeOK` and `InStep`), `AnswerComes` | 2 tracks, 6 sessions, 2 captures each, 2 lines unanswered at a start |
| `decode` | `OwnField`, `Recovered`, `FillSeen`; of ErrorTrap `BurstTrue` | captures of 2 headers out of 4, fields of 3 kinds with damage in the preamble, the sync, the data, at the seam and in the ECC; or one header, and every one or two flips from the preamble's end on; codeword of 80 bits, every burst of up to 7 bits, every pair |
| `repair` | `OwnSector`, `Unanimous`, `HeldIsFound`, `Outvoted`, `CrcExact` | PositionRescue: 2 captures with 3 shifts and 5 sets of headers, 432 bits left over, 3 fields each, 3 versions of the data. VoteRepair: 5 reads out of 9 kinds, fields of 14 bits. DeepRescue: fields at their length, 3 captures with 5 shifts and errors of every kind, a slip among them, 2 sectors, one in a slot that is captured twice. SlidingCrc: every window of 13 bits, ECC of 4, body of 6 |
| `repair_sector_recovered` | with the headers of slots 22 and 23 alone a neighbour's field is returned | PositionRescue with one capture |
| `reports` | `EachOnce`, `Complete`, `VerdictTrue`; of DefectMap `TableFound`, `RowsTrue` | 4 cylinders of 2 heads and 3 sectors, 5 fnodes; every loss of up to 3 of the 15 blocks of the files, and of all; for defect_map.py up to 2, or one with any copies of the table and a track; the entries of a directory in any order |

Why the bounds are enough. In the store, tracks interact only through the
manifest, which a save publishes for several tracks at once: two tracks reach
every such case, and one of them is on cylinder 0, which `deep_rescue.py`
skips. Three sectors allow one that is read clean, one that needs the burst
correction or is clean in another capture, and one that never validates; two
captures allow duplicates, a dry read and an improving read. In Capture three
words of two bits leave every kind of remainder when a capture times out: bits
in the shift register, words in the RX FIFO, a partly filled buffer. In
PriamBus three cylinders make addresses that differ in the upper byte alone,
in the lower alone and in both, and a mixture of two that is past the last.
In ConsoleLink six sessions suffice to pile up answers of several dead ones, and two
captures of a session to come after the warm-up and after each other. In
ErrorTrap 80 bits are past every special place of the walk (the ECC, its seam,
the field's first bits), which do not depend on the length. In Decoder two
headers make a sector pass twice, in either order, or one of another track come
first. In VoteRepair five reads give a majority of three against two, each of which may
be tried at two alignments, so that groups compete,
and a medoid among good and bad. In PositionRescue and DeepRescue the headers
lie on both sides of the end of the revolution, which is where the arithmetic
wraps, and two captures are enough to contradict each other, three to vote. The
captures of DeepRescue are at both ends of what a window has room for, with no header, those of one
revolution or of the other, of another cylinder, and
with bursts on either side of each limit: two bits of the sync, the last place that is
undone and the next.
SlidingCrc is exact arithmetic: `W` and the body's length enter it as numbers
only. The volume of FileWalk has a loop, a shared fnode, an fnode over two
blocks, a slack block, a long file with two indirect blocks; three lost blocks
hit any three of them.

## Fairness

`ToolEnds` assumes that a started tool is scheduled (`WF_vars(Work)`); nobody
has to start one, and captures need not bring anything. `CommandEnds` and
`PromptReturns` assume that the cores run and that time passes (`Expire`): the
loops poll a hardware timer. Nothing is assumed of the drive: no INDEX, clock,
end of BUSY is ever owed. `AnswerComes` assumes that the host goes on reading
and that the firmware executes the lines it gets (`Fairness` of ConsoleLink),
for which `CommandEnds` and `PromptReturns` are the reason; that a session is
killed or times out is never assumed, though it also ends the waiting.

## What is proved

Each proof module proves its theorems from the assumptions on the constants
that the modelled module names, for every value of them. The shape is the same
everywhere: an invariant that is inductive, a lemma for each part of it or for each
action, and the properties of the runs from it. Where the inductive invariant stands in
the modelled module TLC checks it in a run (`FullInv`, `IInv`); those of
Decoder, BusPins, PositionRescue, VoteRepair, DeepRescue, FileWalk and DefectMap stand in the proof modules.

**ImageStore**, for any non-empty set of tracks, any number of sectors and any
set of captures, any decoder and any limits: `TypeCorrect`, `Inductive`
(`IInv`), `FullInductive` (`FullInv`), and from them `ManifestTrue`
(`ClaimedStored`), `NoBlockMisplaced` (`BlocksInPlace`), `CountsTrue`
(`NeverOverstated`), `EvidenceThere` (`EvidenceKept`), `ClaimsKept`
(`ClaimsOnlyGrow`), `CompleteStays` (`CompleteUntouched`), and `Implements`: every step
is a step of Archive, or none.

- `ClaimedStored` is not inductive: it says nothing of the bytes a tool is about
  to write. `IInv` adds what each tool holds in memory. `DiskInv`: the files
  agree with the saved manifest. `MemInv`: the running tool's copy claims no
  less than the manifest, and outside the track it is at the files back the copy
  too, so that a checkpoint may publish it. `SweepInv` and `PatchInv`: on the
  track it is at, `labels` and `buf` (or the bytearray and the copy) agree, and
  claim no less than the manifest. `ControlInv` and `ListingInv`: where a tool
  can be, and that a listed track has a file. A kill only forgets memory, so
  it preserves `DiskInv`. `ImageInPlace` is the one lemma about the join: without
  empty slices it moves nothing.
- `EvidenceKept` speaks of whole captures, but a kill may leave one empty, and
  the sectors it was to show are then in nobody's class. `EvidenceInv` therefore speaks of files
  that exist, and adds that an offline tool claims "valid" and "corrected" only
  where the manifest does.
- The refinement needs to know that what is being written is no worse than what
  it replaces (`RewriteInv`), and that a claimed sector can be read at every
  moment (`Legible`), so that the reader's view of it is a recovered class.

**Capture**, for any buffer, word and FIFO size: `Inductive` (`IInv`),
`TypeCorrect`, `CoresTakeTurns` (`Lockstep`), `GateHasOneOwner`
(`GateObeyed`), `NoStaleWords` (`AnswerTrue`), and `Implements` (`ServiceKept`):
the engine implements CaptureService. `TurnInv` says for each point of core0
where core1 may be and what the FIFOs hold; `GateInv` that a pulse falls
only between INDEX and the end of sampling; `SampleInv` that shift register and
RX FIFO hold this request's bits only, which is what they are cleared for before
each capture; `BufferInv` how many words of it are in the buffer, wherever the count is: in
the DMA, in `result`, or on its way to core0.

**PriamBus**, for any geometry and any width of the typed number that is past
the last cylinder: `Inductive` (`IInv`), `TypeCorrect`, `SeekArrives` (`OnTrack`),
`ReadbackDecides` (`StairVerified`), `SequenceDone` (`SequenceTrue`),
`FailedStops` (`NoBlindRetry`), `NoFalseAlarm` (`FailHasCause`). The heart is
`WaitInv`: while the console waits, either the drive refused, or it is still at the
command or has arrived with it, with the target it was meant to have; status
that is stale, or flutters while BUSY, cannot end the wait with OK. `AimInv` says
that the target of a seek begun on an idle drive is the address it wrote.
`AddressOfAim`: an address is decided by its upper and its lower byte, which is
what the staircase reads back.

**BusPins** (in PriamBusProofs), for any registers and bytes: `PinInductive`, `BusNeverFought`
(`BusSafe`), `AccessesAtomic` (`AccessTrue`). An access is a straight line of pin
operations, and its invariant says what the pins are after the first k of them,
for each of the five programs; between two accesses everything rests (`AtRest`),
which is why they may follow each other in any order.

**ConsoleLink**, for any tracks, captures and number of sessions, on the
hypothesis `Backlog <= 2`: `Inductive` (`IInv`), `TracksRight` (`RightTrack`). The hypothesis is a
limit of the code: with three lines unanswered TLC finds a capture stored for
another's track. `CatchUpInv` says which lines of dead sessions can still be ahead
when the session has come so far: to pass the status, the warm-up capture and
its dump it has heard a status, a capture's answer and a dump's end, in this order,
and two old lines cannot give all three; so one of its own did, and that was
the last.

**Decoder**, for any headers, fields, damage and number of headers: `Inductive`,
`NoNeighbour` (`OwnField`), `BurstsRecovered` (`Recovered`), `FillTold`
(`FillSeen`). The lengths are the code's. The search is for the first of the tries that
checks; that there is a first (`LeastOf`: numbers that are bounded have a least) is
proved by counting, since induction is out of reach. `BurstsRecovered` rests
on the anchors of a burst that touches the sync: one of the three alignments finds the
field's start (`ReadableIsTried`). The first attempt at it failed for three and
four flipped bits in the sync, and TLC confirmed the counterexample: hence
`Faint`. That a burst at the seam to the ECC is given up is in `Mended`, which `Recovered` asks for.

**PositionRescue** (in RepairProofs), for any captures, shifts, readable headers, dead sectors
and slot map: `TypeCorrect`, and `NoConflictReturned`: what is returned for a
sector is all that any capture showed for it. `Unanimous` speaks of the end
only; `OneInv` says at every step of the scan that a sector with two different
data shown is in `conflict`, and that otherwise what was shown is what
`rescued` holds. And, on the hypothesis `Aligned`, `PositionTells` (`Rightful`) and
`NoFieldMissed` (`NothingMissed`), which the run checks in `OwnSector` and
`HeldIsFound`. `Aligned`: no capture of another head (that one passes the guard, and may
outvote the others); captures are off INDEX by at most `SLOT_TOL`, and turn at speeds so
near that a slot is as long in all of them, to ten bits; what is left over of a
revolution is 11 to 450 bits. The conditions of the properties are on what was read:
`PitchSeen`, the gaps over the end of the revolution are in the minority; `Tight`,
captures within 100 bits and one bit a slot of each other, so that a place reckoned from
the farthest slot, a revolution on, is still within `SLOT_TOL`. The argument is `MapTrue`,
what the map is whatever headers are read: a median is one of the values
(`MedianIn`), and if fewer than half of the gaps are over the end of the
revolution the median gap is none of them, since they are the longest (`GapIs`, `PitchIs`): so it is
one slot's length in some capture; a header is then rounded to its slot, whichever
revolution it is of (`SlotIs`), so every
vote in a slot is for the sector that is there (`MapIs`); and two slots fix the
interleave, because 23 is prime (`LineIs`). A field is placed in its own slot by
any such map (`PlaceIs`).

**DeepRescue**, for any number of captures, any headers, errors and dead sector:
`Inductive` (`DeepInv`), `TypeCorrect`, `IdentityFromPosition` (`OwnField`), `HeldFound`
(`HeldIsFound`), `ThreeMakeUp` (`Outvoted`); the run checks these three in `OwnSector`,
`HeldIsFound` and `Outvoted`. The
assumption is that headers are off their nominal place by less than half a slot, on
either revolution, and that the leftover is at most a slot less `WIN_AFTER`. Then a
slot base, whichever header is the median (`BaseIs`), is off by too little for a
window to reach a neighbour's field (`FieldIsOwn`). `HeldFound` needs captures off
INDEX by -335 to 899 bits (`InReach`): farther, slot 0 begins before the capture does, or the field
outside the window of a capture that shows no header. The argument: in the window
of its slot a capture's field stands bit for bit as it was read, with nothing of a
neighbour among it (`HeldInWindow`, `ReadBack`), so that of the offsets tried the field's own passes the
sync test and what is wrong there is what the capture has wrong (`HeldIsNear`).
`ThreeMakeUp` needs that, and `Unlike`: the 256 bits at the start of a sector's field are not within
64 of those at any other place up to 200 bits away. Two windows of first-revolution
fields then differ by at most 32 bits at shift 0 and by more than 32 at every other
(`Differs`, `LagsAre`), so each capture votes once, at the same offset (`LaidAre`),
each bit of the consensus has at most one vote against it (`BitAgreed`), and the
consensus has the field as it was written (`ConsensusShows`).

**VoteRepair** (in RepairProofs), for any kinds of reads, bits of the field and limits:
`VoteInductive` (`VoteInv`), `VoteIsRight` (`VoteRight`), `GoodReadsPrevail` (`Recovered`). The
invariant says that the alignment of the good reads is left to try until something is
voted. What is left is one group. `BadIsFar`: a bad read is farther from the group, all
distances together, than a good one; of the `h` bits that tell the two apart each good
read differs from the one or the other, a bad read is at most `h` farther from the good
one than from the bad one, and two good reads are never farther apart than
`OUTLIER_BITS` (`GoodAlike`). `FarOff` is what this leaves to ask of `h`. So every medoid is a
good read, the filter keeps all good reads and no bad one (`KeptIsGood`), and their vote
is the field as it was written (`VoteTrue`). Distances are summed over reads, and
induction over them is out of reach: sums are compared as cardinalities of sets of pairs,
by injections (`PairsAtMost`).

**Repair** (in RepairProofs): `OwnSectorReturned` (`OwnSector`), `NoConflictInRepair`
(`Unanimous`), `WhatIsHeldIsFound` (`HeldIsFound`), `DamagedReadsMakeUp` (`Outvoted`): the
properties of run `repair`, on the hypotheses of the tools they speak of, which MCRepair
asserts of its captures. A behaviour of Repair is one of each tool, because a
step is a step of the tool that is run and no step of the others (`RescuesByPosition`,
`RepairsByVote`, `RescuesByEveryMeans`), so the theorems of each tool apply to it; those of
DeepRescueProofs are cited through an instance, whose operators `SameTool` shows to be
those of Repair's.

**FileWalk**, for any volume, however its directories point, and any loss
(`VolumeAssumption`, `LossAssumption`, `ContentAssumption`): `Inductive`, `ListedOnce`
(`EachOnce`), `ListingComplete` (`Complete`), `VerdictHolds` (`VerdictTrue`).
`ListInv`: the dictionary holds exactly what is listed, each once. `WalkInv`: what
is listed or on the stack has the root and what the listed directories name, and
is within every set that has both; at the end the stack is empty, and the list
is the least such set. So completeness needs no induction over paths.
`ReadAsWritten` and `NoneReadsEmpty` say what is read of a file with its fnode and
indirect blocks there, or with its fnode lost.

**DefectMap** (in FileWalkProofs, whose invariant it extends), for any geometry,
table and loss, and any copies: `DInductive`, `TableRead` (`TableFound`), `RowsHold`
(`RowsTrue`). `TableInv`: no sector probed so far is a surviving copy, and from the
first that is taken for a table on, `bad` is what was written. That needs
`TableAssumption`: no other block of the disk passes for a table (TLC checks it of
strays with the magic and an impossible count or track). `TrackSectors` and
`FlaggedTrue` are the arithmetic of `track_of`: the sectors on a flagged track are
those the format utility meant. `RowsHold` then compares cardinalities, because
`Contains` counts slack too.

Only model-checked. Liveness (`ToolEnds`, `CommandEnds`, `PromptReturns`,
`AnswerComes`): the prover treats neither fairness nor ENABLED. `BurstTrue`,
`CrcExact`: statements about loops over the bits of a codeword, which need
induction over data; the first also rests on the order of the polynomial, and says of
errors that are no burst only that none of the instance is miscorrected, which is not
so for every error. All other invariants and action properties that the runs check are
stated by a theorem. The four violations are counterexamples TLC found.

## Findings

Four runs find what a document or comment of the repository denies;
`PROJECT.json` quotes both sides.

1. `vote_repair.py` and `rescue.py` leave out of `valid` the classes of the
   tools that usually run later; a track fully recovered in another order stays
   "partial".
2. Track files are rewritten in place: an offline tool killed inside the write of a
   listed track leaves a file with no bytes and the manifest claiming its sectors. (The trace is a
   sweep, then `rescue.py` or `deep_rescue.py`; `vote_repair.py` and a revisit write in the same way.)
3. A capture cut short in `raw/` is never rewritten.
4. `rescue.py` takes the gap between the headers of slots 22 and 23 for a slot's length,
   though it is longer by what a revolution leaves over. If these are the only
   neighbouring headers read, the pitch is 5088 instead of 4656, and a sector is given another's
   ECC-valid field: sector 4 that of sector 19.

The conditions of the other properties mark where the code stops short of what
its comments say. No run of its own shows these; dropping the condition does.

- `Recovered` asks for the sync's leading zeros (`Anchored`): one flipped bit
  there loses a sector, though `decode_scout.py` tries several alignments after
  a flipped sync bit. And it asks for a sync with at most two bits wrong
  (`Faint`): a burst of three or four inside the sync is within what the ECC
  corrects, but `find_data` passes the alignment over.
- `HeldIsFound` asks for at most one bit of the sync wrong in `deep_rescue.py` (`Held`), where
  `find_data` lets two pass: the tool of last resort passes over fields the decoder would take.
- `Corrected` (of `BurstTrue`) asks for a burst at least four bits away from the ECC: one over the
  seam is trapped below bit 32 and given up ("burst inside the ECC bytes"), though bits of
  the data are wrong; so is one inside the ECC, though the field is fine. `Recovered`, `Held` and
  `validate` carry the same limit.
- `NothingMissed` asks for captures within 100 bits of each other: a field of the next
  revolution is 432 bits later than `pos_of` reckons, and past `SLOT_TOL` with 168 more.
- `OwnSector` is checked without captures of another head: those pass the guard of
  `rescue.py`, and may outvote the right ones slot by slot.
- `HeldIsFound` and `Outvoted` of DeepRescue promise no burst correction of a consensus and no
  slip repair of a single read, both named at the top of `deep_rescue.py`:
  `sliding_scan` lets only exact fields through, and `slip_search` is run on the
  consensus alone.
- `ScanExact` (of `CrcExact`) leaves out the last start that fits a field into a window, as the
  range of `sliding_scan` does; the windows of the tool are longer than they need be.
- `OnTrack` speaks of the cylinder the console understood (`Parsed`): `host_cli.c` cuts a typed number to 16 bits
  before the range is checked, so that `seek 65536` seeks to cylinder 0, though
  `firmware/README.md` says cylinders above 524 are rejected.
- `VerdictTrue` asks for the fnode and its indirect blocks (`Meta`): a file whose
  pointers are lost has no extents, and counts as intact.
- `RowsTrue` says nothing of tracks: `covered`, printed as "fully unreadable", holds
  each flagged track that misses one sector, and `claim`, "no file data onto the
  flagged tracks", is made when none of it is lost there. With nothing missing
  at all `defect_map.py` ends in a division by zero (`Split`).

An observation that rests on the assumed drive: a `seek` or `capture` started
while the drive is still busy with an earlier command that the console gave up on can be
reported OK on another cylinder, if BUSY clears while the address is being written or before the strobe.
`OnTrack` therefore speaks of seeks begun on an idle drive. `StairVerified`
holds without that condition, because the staircase reads the address back.

## Not modelled, and the plan

1. **Composition**: ConsoleLink with ImageStore (a capture that is archived is
   of its track, over kills of the host) and with Capture; the decoders as the
   `Decode` of ImageStore.
2. **Two tools at once** on one image directory, which the documentation forbids
   and nothing prevents.

Not modelled: the probability that the burst corrector accepts garbage near a
sync in `deep_rescue.py` (about 3.5e-4 per window); the search of
`find_headers` for its nine bytes, taken as finding what is there; the `--wiggle` seeks, `--park`, `--down` and `--probe`
of `sweep.py`; `decode_scout.py`'s own `main`, the tally of the reserved area
and the JSON of `defect_map.py`; the line editor and the help of the console;
the LED; delays below the order of pin operations. The printing and the hardware
files have no state that a property would speak of.
