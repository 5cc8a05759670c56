----------------------------- MODULE BlockCache -----------------------------
(***************************************************************************)
(* The access of limine.c to a device: a cache of one block before a stdio *)
(* stream before the device itself.  An operation maps the record of the   *)
(* three to the set of its outcomes, failures included; calls are chained  *)
(* in the order of the code.  Bytes are cells.                             *)
(***************************************************************************)
EXTENDS Integers, Sequences, SequencesExt

CONSTANTS
  BlockSizes,   \* the guesses of device_init, in cells
  MaxFaults     \* BOUND: how many transfers fail

ASSUME BlockCacheAssumption ==
  /\ BlockSizes \in Seq(Nat \ {0}) /\ BlockSizes # << >>
  /\ MaxFaults \in Nat

NoBlock == -1       \* (uint64_t)-1
Junk    == 299      \* what a failed read leaves in the cache

(* disk: the cells of the device, from 0.  held: the cells of the block    *)
(* pending, written to the stream and not yet to the device.               *)
Opened(disk, faults) ==
  [disk |-> disk, pending |-> NoBlock, held |-> << >>, cached |-> NoBlock, dirty |-> FALSE,
   cache |-> << >>, block_size |-> 0, faults |-> faults]

Done(d)   == {[dev |-> d, ok |-> TRUE]}
Failed(d) == {[dev |-> d, ok |-> FALSE]}

(* A fault of the device may hit any transfer, MaxFaults times in all.     *)
Fault(d) == IF d.faults < MaxFaults THEN Failed([d EXCEPT !.faults = @ + 1]) ELSE {}

(* The next call is made on what the last one left, if it succeeded.       *)
Chain(outcomes, Call(_)) == UNION {IF o.ok THEN Call(o.dev) ELSE {o} : o \in outcomes}

InBlock(d, block, a) == a \in block * d.block_size .. block * d.block_size + d.block_size - 1
-----------------------------------------------------------------------------
(* fseek and fclose write what the stream holds; when the device refuses,  *)
(* the stream keeps it and the call fails.                                 *)
Stream(d) ==
  [a \in DOMAIN d.disk |-> IF d.pending # NoBlock /\ InBlock(d, d.pending, a)
                             THEN d.held[a - d.pending * d.block_size + 1] ELSE d.disk[a]]
Sync(d) ==
  IF d.pending = NoBlock THEN Done(d)
  ELSE Done([d EXCEPT !.disk = Stream(d), !.pending = NoBlock, !.held = << >>]) \cup Fault(d)

(* fread of a whole block fails at the end of the device or by a fault,    *)
(* and then the buffer may hold anything.                                  *)
ReadBlock(d, block) ==
  LET first == block * d.block_size
      cells == [i \in 1 .. d.block_size |-> d.disk[first + i - 1]]
  IN  IF first + d.block_size - 1 \notin DOMAIN d.disk THEN Failed(d)
      ELSE Done([d EXCEPT !.cache = cells, !.cached = block])
           \cup Fault(d)
           \cup Fault([d EXCEPT !.cache = [i \in 1 .. d.block_size |-> Junk]])

(* The first size in which the start of the device can be read.            *)
device_init(disk, faults) ==
  LET tried[k \in 0 .. Len(BlockSizes)] ==
        IF k = 0 THEN Failed(Opened(disk, faults))
        ELSE UNION {IF o.ok THEN {o} ELSE ReadBlock([o.dev EXCEPT !.block_size = BlockSizes[k]], 0) : o \in tried[k - 1]}
  IN  tried[Len(BlockSizes)]

(* The cache is clean as soon as the stream has taken its block.           *)
device_flush_cache(d) ==
  IF ~d.dirty THEN Done(d)
  ELSE Chain(Sync(d), LAMBDA e : Done([e EXCEPT !.pending = e.cached, !.held = e.cache, !.dirty = FALSE]))

device_cache_block(d, block) ==
  IF d.cached = block THEN Done(d)
  ELSE Chain(device_flush_cache(d), LAMBDA e : Chain(Sync(e), LAMBDA f : ReadBlock(f, block)))

(* A transfer goes block by block; when it fails, data is what had been    *)
(* transferred.  cells: what is to be written, << >> for a read.           *)
Copied(d, data, loc, count, cells) ==
  LET n == Len(data)
      offset == (loc + n) % d.block_size
      chunk == IF count - n > d.block_size - offset THEN d.block_size - offset ELSE count - n
  IN  IF cells = << >>
        THEN [dev |-> d, ok |-> TRUE, data |-> data \o SubSeq(d.cache, offset + 1, offset + chunk)]
        ELSE [dev |-> [d EXCEPT !.dirty = TRUE,
                                !.cache = [i \in DOMAIN @ |-> IF i \in offset + 1 .. offset + chunk
                                                                THEN cells[n + i - offset] ELSE @[i]]],
              ok |-> TRUE, data |-> SubSeq(cells, 1, n + chunk)]

NextBlock(o, loc, count, cells) ==
  IF ~o.ok \/ Len(o.data) = count THEN {o}
  ELSE {IF c.ok THEN Copied(c.dev, o.data, loc, count, cells) ELSE [dev |-> c.dev, ok |-> FALSE, data |-> o.data] :
          c \in device_cache_block(o.dev, (loc + Len(o.data)) \div o.dev.block_size)}

Transfer(d, loc, count, cells) ==
  LET after[k \in 0 .. count] ==
        IF k = 0 THEN {[dev |-> d, ok |-> TRUE, data |-> << >>]}
        ELSE UNION {NextBlock(o, loc, count, cells) : o \in after[k - 1]}
  IN  after[count]

device_read(d, loc, count) == Transfer(d, loc, count, << >>)
device_put(d, loc, cells)  == Transfer(d, loc, Len(cells), cells)

(* The cache is given up, with whatever is in it.                          *)
KeepBlock_Dropped(d) == [d EXCEPT !.dirty = FALSE]
Dropped(d) == [d EXCEPT !.dirty = FALSE, !.cached = NoBlock]
=============================================================================
