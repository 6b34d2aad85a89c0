----------------------------- MODULE GuestFiles -----------------------------
(***************************************************************************)
(* The files of a title: the guest file system of a launch and its re-runs *)
(* (render360-guest-vfs.mjs), the block cache of a range source            *)
(* (render360-streaming-source.mjs), the directory trees of a disc image   *)
(* (render360-xdvdfs.mjs) and the blocks of an STFS package                *)
(* (render360-stfs-browser-extractor.mjs).  A boot is deterministic: a     *)
(* script of reads.  Sizes are in units of the read-ahead (8 MiB).         *)
(***************************************************************************)
EXTENDS Integers, Sequences, FiniteSets, SequencesExt, FiniteSetsExt

CONSTANTS
    Script,      \* the reads a boot makes: [offset, length] of one large file
    ScriptSize,  \* the file's size
    MaxRetries,  \* maxRetries (128)
    MaxCache,    \* maxCacheBytes
    CacheBlocks, \* block numbers of the range source
    MaxBlocks,   \* maxBlocks (32)
    BlockReaders,\* reads of the source that may be under way at once
    TreeNodes,   \* directory entries at offsets 1 .. n of a table
    StfsSample,  \* block numbers of packages that are looked at
    ChainBlocks  \* blocks of a small package

\* Three levels of hash tables account for 170^3 blocks of a package.
ASSUME FilesAssumption ==
    /\ Script \in Seq([offset : Nat, length : Nat \ {0}]) /\ ScriptSize \in Nat
    /\ \A i \in DOMAIN Script : Script[i].offset + Script[i].length <= ScriptSize
    /\ MaxRetries \in Nat /\ MaxCache \in Nat /\ MaxBlocks \in Nat \ {0}
    /\ TreeNodes \subseteq Nat /\ TreeNodes # {} /\ IsFiniteSet(TreeNodes)
    /\ 0 \in ChainBlocks
    /\ StfsSample \subseteq Nat /\ \A i \in StfsSample : i < 170 * 170 * 170

VARIABLES
    boot,      \* runWithGuestVfsRetries
    rangeCache,\* BlockCachedRangeSource
    tree,      \* walkTree
    chain      \* extractStfsEntryBrowser

filesVars == <<boot, rangeCache, tree, chain>>

-----------------------------------------------------------------------------
(* A boot and its re-runs.                                                 *)

Sources == {"xex", "stfs", "iso", "worker"}

BootInit ==
    boot = [source |-> "none", at |-> "idle", attempt |-> 0, stop |-> 0, last |-> 0,
            attached |-> FALSE, cache |-> {}, bytes |-> 0, cleared |-> FALSE]

\* readSync: a cached extent that covers the range.
Covered(b, read) ==
    \/ b.source = "worker" \/ b.attached
    \/ \E e \in b.cache : e.offset <= read.offset /\ read.offset + read.length <= e.offset + e.length

\* The read the guest stops at; 0: it gets through.
StopsAt(b) ==
    LET blocked == {i \in DOMAIN Script : ~Covered(b, Script[i])}
    IN  IF blocked = {} THEN 0 ELSE Min(blocked)

\* prepareXexGuestVfs, prepareStfsGuestVfs, prepareIsoGuestVfs.
PrepareFiles(source) ==
    /\ boot.at = "idle"
    /\ boot' = [boot EXCEPT !.source = source, !.at = "run"]

\* runOnce, and what the loop makes of its end.
RunOnce ==
    /\ boot.at = "run"
    /\ LET stop == StopsAt(boot)
       IN  boot' = [boot EXCEPT !.stop = stop, !.last = boot.stop,
                                !.at = IF stop = 0 \/ boot.attempt >= MaxRetries THEN "ended" ELSE "fetch"]

FaultyExtent(read) == [offset |-> 0, length |-> IF read.length > 1 THEN read.length ELSE 1]

\* fetchPending of a disc: the range and what follows, inside the file.
Extent(read) ==
    LET start == IF read.offset < ScriptSize THEN read.offset ELSE ScriptSize
        wanted == IF read.length > 1 THEN read.length ELSE 1
    IN  [offset |-> start, length |-> IF ScriptSize - start < wanted THEN ScriptSize - start ELSE wanted]

\* ensure: a cache that would grow too large is dropped.
Ensure(b, e) ==
    LET drop == b.bytes + e.length > MaxCache
    IN  [b EXCEPT !.cache = IF drop THEN {e} ELSE @ \cup {e},
                  !.bytes = IF drop THEN e.length ELSE @ + e.length,
                  !.cleared = @ \/ drop]

\* fetchPending: from the package, into the cache, or not at all.
FetchPending ==
    /\ boot.at = "fetch"
    /\ boot' = IF boot.source = "xex" THEN [boot EXCEPT !.at = "ended"]
               ELSE IF boot.source = "stfs"
               THEN [boot EXCEPT !.at = "run", !.attempt = @ + 1, !.attached = TRUE]
               ELSE [Ensure(boot, Extent(Script[boot.stop])) EXCEPT !.at = "run", !.attempt = @ + 1]

BootSteps == (\E source \in Sources : PrepareFiles(source)) \/ RunOnce \/ FetchPending

-----------------------------------------------------------------------------
(* The block cache.                                                        *)

RangeInit ==
    rangeCache = [held |-> <<>>, pending |-> {}, flights |-> {}, cleared |-> FALSE]

\* The promise of block b is there before its bytes are.
Pending(b) == rangeCache.pending \cup {b}

\* block(b) by reader r: held, on its way, or fetched.
BlockWanted(r, b) ==
    /\ \A f \in rangeCache.flights : f.reader # r
    /\ rangeCache' =
        IF Contains(rangeCache.held, b)
        THEN [rangeCache EXCEPT !.held = Append(RemoveFirst(@, b), b)]
        ELSE IF b \in rangeCache.pending THEN rangeCache
        ELSE [rangeCache EXCEPT !.pending = Pending(b),
                                !.flights = @ \cup {[reader |-> r, block |-> b]}]

\* evict: the least recently used.
KeptBlocks(held) == IF Len(held) > MaxBlocks THEN Tail(held) ELSE held

\* A read of the source ends.
BlockRead(f) ==
    LET arrived == [rangeCache EXCEPT !.pending = @ \ {f.block}, !.flights = @ \ {f}]
    IN  rangeCache' \in {arrived, [arrived EXCEPT !.held = KeptBlocks(Append(RemoveFirst(@, f.block), f.block))]}

ClearBlocks ==
    rangeCache' = [rangeCache EXCEPT !.held = <<>>, !.pending = {}, !.cleared = TRUE]

RangeSteps ==
    \/ \E r \in BlockReaders, b \in CacheBlocks : BlockWanted(r, b)
    \/ \E f \in rangeCache.flights : BlockRead(f)
    \/ ClearBlocks

-----------------------------------------------------------------------------
(* A directory table of a disc image: a binary tree of entries.            *)

TreeInit ==
    tree = [left |-> [n \in TreeNodes |-> 0], right |-> [n \in TreeNodes |-> 0],
            at |-> "idle", stack |-> <<>>, seen |-> {}, out |-> <<>>]

\* An image, whatever its child pointers (0: none, -1: outside the table).
ReadTable ==
    /\ tree.at = "idle"
    /\ \E l, r \in [TreeNodes -> TreeNodes \cup {0, -1}] :
        tree' = [tree EXCEPT !.left = l, !.right = r, !.at = "walk", !.stack = <<Min(TreeNodes)>>]

Seen(e) == tree.seen \cup {e}

\* What is left to visit below a pointer.
Child(c) == IF c = 0 THEN <<>> ELSE <<c>>

\* One turn of walkTree: left before right, errors end it.
WalkEntry ==
    /\ tree.at = "walk"
    /\ IF tree.stack = <<>> THEN tree' = [tree EXCEPT !.at = "done"]
       ELSE LET e == Last(tree.stack)
                children == Child(tree.right[e]) \o Child(tree.left[e])
            IN  IF e \in tree.seen \/ Contains(children, -1)
                THEN tree' = [tree EXCEPT !.at = "error"]
                ELSE tree' = [tree EXCEPT !.seen = Seen(e), !.out = Append(@, e),
                                          !.stack = Front(@) \o children]

TreeSteps == ReadTable \/ WalkEntry

-----------------------------------------------------------------------------
(* The blocks of a package.                                                *)

L0 == 170
L1 == L0 * L0
Step0(b) == L0 + b
Step1(b) == L1 + (L0 + 1) * b

\* blockOffset, in blocks behind the header; b: blocks of a hash table.
DataBlock(i, b) ==
    i + ((i + L0) \div L0) * b
      + (IF i >= L0 THEN ((i + L1) \div L1) * b ELSE 0)
      + (IF i >= L1 THEN ((i + L0 * L1) \div (L0 * L1)) * b ELSE 0)

FaultyHashBlock(i, level, b) ==
    IF level = 0 THEN IF i < L0 THEN 0 ELSE (i \div L0) * Step0(b) + (i \div L1 + 1) * b
    ELSE IF level = 1 THEN IF i < L1 THEN Step0(b) ELSE (i \div L1) * Step1(b) + b
    ELSE Step1(b)

\* hashBlockNumber
HashBlock(i, level, b) ==
    IF level = 0
    THEN IF i < L0 THEN 0
         ELSE (i \div L0) * Step0(b) + (i \div L1 + 1) * b + (IF i < L1 THEN 0 ELSE b)
    ELSE IF level = 1 THEN IF i < L1 THEN Step0(b) ELSE (i \div L1) * Step1(b) + b
    ELSE Step1(b)

ChainInit ==
    chain = [next |-> [i \in ChainBlocks |-> -1], at |-> "idle", current |-> 0,
             visited |-> {}, size |-> 0, left |-> 0, block |-> 0, tables |-> 1]

\* A file of so many blocks in a package with any chain (-1: END_OF_CHAIN).
ExtractStarts ==
    /\ chain.at = "idle"
    /\ \E next \in [ChainBlocks -> ChainBlocks \cup {-1}], n \in 1 .. Cardinality(ChainBlocks) :
        chain' = [chain EXCEPT !.next = next, !.at = "copy", !.visited = {0}, !.size = n, !.left = n]

\* What nextBlock found: not the end, not a block of this file.
MayVisit(next) == next # -1 /\ next \notin chain.visited

\* One block of the loop.
CopyBlock ==
    /\ chain.at = "copy"
    /\ LET next == chain.next[chain.current]
       IN  chain' = IF chain.left = 1 THEN [chain EXCEPT !.left = 0, !.at = "done"]
                    ELSE IF ~MayVisit(next) THEN [chain EXCEPT !.at = "error"]
                    ELSE [chain EXCEPT !.left = @ - 1, !.current = next, !.visited = @ \cup {next}]

\* A block of a large package is located, with read-only or two-fold tables.
LocateBlock ==
    /\ chain.at = "idle"
    /\ \E i \in StfsSample, b \in 1 .. 2 : chain' = [chain EXCEPT !.at = "located", !.block = i, !.tables = b]

ChainSteps == ExtractStarts \/ CopyBlock \/ LocateBlock

-----------------------------------------------------------------------------
(* Properties                                                              *)

\* A boot that is run again stops at a later read than before, until the cache
\* is dropped: "a re-run reaches the same read again" and gets past it
\* (render360-guest-vfs.mjs:131-149, 214-223).
RetriesAdvance ==
    boot.at \in {"fetch", "ended"} /\ boot.last # 0 /\ ~boot.cleared =>
        boot.stop = 0 \/ boot.stop > boot.last

\* A block is read from the source once, however many readers want it, and the
\* cache stays within its bound (render360-streaming-source.mjs:21-22).
BlocksReadOnce ==
    /\ ~rangeCache.cleared => \A f, g \in rangeCache.flights : f.block = g.block => f = g
    /\ Len(rangeCache.held) <= MaxBlocks

\* A directory is listed only if its table is a tree, each entry once, and then
\* completely: no table makes the walk go on for ever
\* (render360-xdvdfs.mjs:45-56).
ListingIsTheTree ==
    /\ Len(tree.out) <= Cardinality(TreeNodes)
    /\ tree.at = "done" =>
        /\ \A e \in Range(tree.out) : {tree.left[e], tree.right[e]} \subseteq Range(tree.out) \cup {0}
        /\ IsInjective(tree.out)

\* A file is extracted from as many different blocks as it has
\* (render360-stfs-browser-extractor.mjs:60-86).
BlocksAreDistinct == chain.at = "done" => Cardinality(chain.visited) = chain.size

\* No data block of a package lies where one of its hash tables is
\* (render360-stfs-browser-extractor.mjs:33-47).
TablesAndDataDisjoint ==
    chain.at = "located" =>
        \A j \in StfsSample, level \in 0 .. 2 :
            LET h == HashBlock(j, level, chain.tables)
            IN  DataBlock(chain.block, chain.tables) \notin h .. h + chain.tables - 1

\* A title that waits for its data gets on, and nothing is read twice.
ReadsGetOn == RetriesAdvance /\ BlocksReadOnce

\* Whatever a directory or a block table says, walking it ends and takes each
\* entry and each block for what it is.
TablesAreTrees == ListingIsTheTree /\ BlocksAreDistinct /\ TablesAndDataDisjoint
=============================================================================
