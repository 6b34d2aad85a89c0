---------------------------- MODULE XenosBackend ----------------------------
(***************************************************************************)
(* The WebGPU backend of render360-webgpu-backend.mjs: the core's command  *)
(* stream is replayed into one command encoder, which is submitted when a  *)
(* ring or the staging buffer is full, at a swap and at a present.  What a *)
(* command reads was written to the queue before its submit, so the rings  *)
(* and the staging buffer may be reused only once the commands that read   *)
(* them are submitted.  WebGPU rejects a submit as a whole when one of its  *)
(* commands names an object that has been destroyed.                       *)
(*                                                                         *)
(* Shared memory is a set of pages that hold the number of their last      *)
(* upload; constants and indices are the number of the draw they belong    *)
(* to.  EDRAM tiles, target heights and ring offsets are counted in units  *)
(* of one tile row and one slot.  A GPU object is a tuple, so that it can  *)
(* be told from the one that replaces it.                                  *)
(***************************************************************************)
EXTENDS Naturals, Sequences, FiniteSets

CONSTANTS
    TargetKeys,    \* render target keys, with base and pitch in tiles
    EdramTiles,    \* EDRAM_TILES
    MaxRows,       \* bound: height of a target in rows of tiles
    TextureIds,    \* stream texture ids, unique in a stream
    GpuPages,      \* pages of shared memory the device can hold
    LostPages,     \* pages above sharedMemoryBytes
    RingSlots,     \* slots of the uniform and of the index ring
    StagingSlots,  \* slots of the staging buffer
    MaxStream,     \* bound: commands of the stream
    NoTarget

ASSUME BackendAssumption ==
    /\ EdramTiles \in Nat \ {0} /\ MaxRows \in Nat \ {0}
    /\ \A k \in TargetKeys : k.base \in 0 .. EdramTiles - 1 /\ k.pitch \in 1 .. EdramTiles
    /\ GpuPages \cap LostPages = {}
    /\ RingSlots \in Nat \ {0} /\ StagingSlots \in Nat \ {0} /\ MaxStream \in Nat
    /\ NoTarget \notin [key : TargetKeys, rows : 1 .. MaxRows, initialized : BOOLEAN]

Rings == {"uniforms", "indices"}
Words == 0 .. MaxStream

VARIABLES
    gpu,       \* the backend's CPU side, see GpuInit
    queue,     \* the GPU's: shared memory, staging and rings as last written
    pending,   \* commands of the encoder, not yet submitted
    streamed,  \* number of commands replayed
    latest     \* history: the last upload or resolve of each page

gpuVars == <<gpu, queue, pending, streamed, latest>>

\* Shaders and a pipeline, as a stream that has run for a while has them.
Shaders == {"shader", "texture load", "resolve copy"}

GpuInit ==
    /\ gpu = [pass |-> FALSE,                    \* a render pass is open
              bound |-> {}, rows |-> 1,          \* boundTargets
              targets |-> [k \in TargetKeys |-> NoTarget],
              tiles |-> [t \in 0 .. EdramTiles - 1 |-> NoTarget],
              textures |-> {}, groups |-> {},    \* textureGroups
              shaders |-> Shaders, pipelines |-> {"pipeline"},  \* those that could be made
              scratch |-> 0, retired |-> {},     \* scratchRetired
              used |-> [r \in Rings |-> 0], staged |-> 0,
              front |-> 0, destroyed |-> {},
              lost |-> FALSE,                    \* history: a submit was rejected
              painted |-> {}]                    \* history: targets with contents
    /\ queue = [memory |-> [p \in GpuPages |-> 0],
                staging |-> [s \in 1 .. StagingSlots |-> 0],
                ring |-> [r \in Rings |-> [s \in 1 .. RingSlots |-> 0]]]
    /\ pending = <<>>
    /\ streamed = 0
    /\ latest = [p \in GpuPages |-> 0]

\* A backend: what the operators below take and return.
Backend == [gpu |-> gpu, queue |-> queue, pending |-> pending]
Becomes(b) == gpu' = b.gpu /\ queue' = b.queue /\ pending' = b.pending

Occupied == [TargetKeys -> {NoTarget} \cup [key : TargetKeys, rows : 1 .. MaxRows, initialized : BOOLEAN]]

GpuTypeOK ==
    /\ gpu.pass \in BOOLEAN /\ gpu.bound \subseteq TargetKeys /\ gpu.rows \in 1 .. MaxRows
    /\ gpu.targets \in Occupied
    /\ gpu.textures \subseteq TextureIds
    /\ gpu.used \in [Rings -> 0 .. RingSlots] /\ gpu.staged \in 0 .. StagingSlots
    /\ gpu.front \in TextureIds \cup {0} /\ gpu.lost \in BOOLEAN
    /\ queue.memory \in [GpuPages -> Words]
    /\ queue.staging \in [1 .. StagingSlots -> Words]
    /\ queue.ring \in [Rings -> [1 .. RingSlots -> Words]]
    /\ \A i \in DOMAIN pending :
           pending[i].op \in {"copy", "draw", "compute", "resolve", "grow", "pass", "clear"}
    /\ latest \in [GpuPages -> Words]

-----------------------------------------------------------------------------
(* The encoder and its submit.                                             *)

Command(op) ==
    [op |-> op, uses |-> {}, at |-> [r \in Rings |-> {}], data |-> 0,
     page |-> 0, slot |-> 0, sees |-> <<>>, loses |-> {}]

EndPass(b) == [b EXCEPT !.gpu.pass = FALSE]

Recorded(b, c) == [b EXCEPT !.pending = Append(@, c)]

\* Shared memory before command i of the encoder executes.
MemoryAt(b, i, p) ==
    LET writes == {j \in 1 .. i - 1 : b.pending[j].op \in {"copy", "resolve"} /\ b.pending[j].page = p}
        last == CHOOSE j \in writes : \A k \in writes : k <= j
    IN  IF writes = {} THEN b.queue.memory[p]
        ELSE IF b.pending[last].op = "copy" THEN b.queue.staging[b.pending[last].slot]
        ELSE b.pending[last].data

Rejected(b) == \E i \in DOMAIN b.pending : b.pending[i].uses \cap b.gpu.destroyed # {}

Executed(b) ==
    IF Rejected(b) THEN b.queue.memory ELSE [p \in GpuPages |-> MemoryAt(b, Len(b.pending) + 1, p)]

\* submit: rings and staging start over, as does the encoder, whether or not
\* WebGPU executes it; scratch buffers that were replaced are destroyed.
Submit(b) ==
    [gpu |-> [EndPass(b).gpu EXCEPT !.lost = @ \/ Rejected(b),
                                    !.used = [r \in Rings |-> 0], !.staged = 0,
                                    !.destroyed = @ \cup b.gpu.retired, !.retired = {}],
     queue |-> [b.queue EXCEPT !.memory = Executed(b)],
     pending |-> <<>>]

\* fits of both rings.
Fits(b, need) == \A r \in Rings : b.gpu.used[r] + need[r] <= RingSlots

\* What push does for need[r] slots of ring r.
SlotsFor(b, need, r) == b.gpu.used[r] + 1 .. b.gpu.used[r] + need[r]

Pushed(b, need, data) ==
    [b EXCEPT
        !.gpu.used = [r \in Rings |-> @[r] + need[r]],
        !.queue.ring = [r \in Rings |-> [s \in 1 .. RingSlots |->
                           IF s \in SlotsFor(b, need, r) THEN data ELSE @[r][s]]]]

\* Both rings flush on submit.
MadeRoom(b, need) == IF Fits(b, need) THEN b ELSE Submit(b)

Uniforms(n) == [uniforms |-> n, indices |-> 0]

\* A compute command with n constant blocks.
Computed(b, c, n) ==
    LET r == MadeRoom(b, Uniforms(n))
    IN  Recorded(Pushed(r, Uniforms(n), streamed + 1),
                 [c EXCEPT !.at = [q \in Rings |-> SlotsFor(r, Uniforms(n), q)], !.data = streamed + 1])

-----------------------------------------------------------------------------
(* Uploads.                                                                *)

Written(b, p) ==
    LET slot == b.gpu.staged + 1
    IN  Recorded([EndPass(b) EXCEPT !.queue.staging[slot] = streamed + 1],
                 [Command("copy") EXCEPT !.page = p, !.slot = slot])

FaultyStagingRoom(b, slots) ==
    IF slots <= StagingSlots /\ b.gpu.staged + slots > StagingSlots THEN Submit(b) ELSE b

\* The staging buffer starts over when the upload does not fit behind the rest.
StagingRoom(b, slots) == IF b.gpu.staged + slots > StagingSlots THEN Submit(b) ELSE b

\* upload: dropped above the shared memory, written directly when it is
\* larger than the staging buffer.
Upload(p, slots) ==
    LET b == StagingRoom(Backend, slots)
    IN  /\ IF p \in LostPages
           THEN UNCHANGED <<gpu, queue, pending, latest>>
           ELSE /\ IF slots > StagingSlots
                   THEN Becomes([EndPass(b) EXCEPT !.queue.memory[p] = streamed + 1])
                   ELSE Becomes([Written(b, p) EXCEPT !.gpu.staged = b.gpu.staged + slots])
                /\ latest' = [latest EXCEPT ![p] = streamed + 1]

-----------------------------------------------------------------------------
(* Shaders, pipelines and textures.                                        *)

\* defineShader: what Naga or the device rejects is kept as an error.
DefineShader(id, converts) ==
    /\ gpu' = [gpu EXCEPT !.shaders = IF converts THEN @ \cup {id} ELSE @ \ {id}]
    /\ UNCHANGED <<queue, pending, latest>>

\* defineLoadShader: of a texture load or of a resolve copy.
DefineLoadShader(id, converts) == DefineShader(id, converts)

\* definePipeline: every shader has to have a module.
DefinePipeline(id, shaders, accepted) ==
    /\ gpu' = [gpu EXCEPT !.pipelines =
                  IF shaders \subseteq gpu.shaders /\ accepted THEN @ \cup {id} ELSE @ \ {id}]
    /\ UNCHANGED <<queue, pending, latest>>

\* Groups made while a texture was missing show a placeholder.
GroupsAfter(g) == {}

\* defineTexture, of a known format or not.
DefineTexture(id, known) ==
    /\ id \notin gpu.textures
    /\ gpu' = IF known
              THEN [gpu EXCEPT !.textures = @ \cup {id}, !.groups = GroupsAfter(@)]
              ELSE gpu
    /\ UNCHANGED <<queue, pending, latest>>

\* textureBindGroups: the group kept for a texture, with the view it shows.
ViewOf(b, id) == IF id \in b.gpu.textures THEN id ELSE 0
GroupFor(b, id) ==
    IF \E g \in b.gpu.groups : g.id = id
    THEN CHOOSE g \in b.gpu.groups : g.id = id
    ELSE [id |-> id, view |-> ViewOf(b, id)]

Scratch(n) == <<"scratch", n>>

\* The scratch buffer grows; the old one lives until the next submit.
ScratchFor(b, n) ==
    IF b.gpu.scratch >= n THEN b
    ELSE [b EXCEPT !.gpu.retired = @ \cup ({Scratch(b.gpu.scratch)} \ {Scratch(0)}),
                   !.gpu.scratch = n]

\* loadTexture: dispatches into the scratch buffer, expandTexels for some
\* formats, and copies into the texture.
LoadTexture(id, bytes, dispatches) ==
    /\ IF id \in gpu.textures /\ "texture load" \in gpu.shaders
       THEN LET b == ScratchFor(EndPass(Backend), bytes)
            IN  Becomes(Computed(b, [Command("compute") EXCEPT
                            !.uses = {Scratch(b.gpu.scratch), <<"texture", id>>},
                            !.sees = latest], dispatches))
       ELSE UNCHANGED <<gpu, queue, pending>>
    /\ UNCHANGED latest

-----------------------------------------------------------------------------
(* Render targets.                                                         *)

Object(t) == <<"target", t.key, t.rows>>
TilesOf(k, rows) == {(k.base + r * k.pitch + c) % EdramTiles : r \in 0 .. rows - 1, c \in 0 .. k.pitch - 1}

\* A taller target has the contents of the one it replaces, if it had any.
Carried(t) == t.initialized

\* target: the one there is if it is tall enough; else a taller one.  The copy
\* of the old one is only recorded when the old one is destroyed.
TargetFor(b, k) ==
    LET t == b.gpu.targets[k]
        fresh(i) == [key |-> k, rows |-> b.gpu.rows, initialized |-> i]
    IN  IF t = NoTarget THEN [b EXCEPT !.gpu.targets[k] = fresh(FALSE)]
        ELSE IF t.rows >= b.gpu.rows THEN b
        ELSE Recorded([EndPass(b) EXCEPT
                          !.gpu.targets[k] = fresh(Carried(t)),
                          !.gpu.destroyed = @ \cup {Object(t)}],
                      [Command("grow") EXCEPT !.uses = {Object(t), Object(fresh(TRUE))}])

\* own: the tiles the target covers up to the bound height.
Owned(b, k) ==
    [t \in 0 .. EdramTiles - 1 |->
        IF t \in TilesOf(k, b.gpu.rows) THEN Object(b.gpu.targets[k]) ELSE b.gpu.tiles[t]]

Taken(b, k) == [b EXCEPT !.gpu.tiles = Owned(b, k), !.gpu.targets[k].initialized = TRUE]

\* beginPass: the open pass, or a new one on the bound targets, if any.
BeginPass(b) ==
    LET first == CHOOSE k \in b.gpu.bound : TRUE
        others == b.gpu.bound \ {first}
        second == CHOOSE k \in others : TRUE
        made == IF others = {} THEN TargetFor(b, first) ELSE TargetFor(TargetFor(b, first), second)
        owned == IF others = {} THEN Taken(made, first) ELSE Taken(Taken(made, first), second)
        cleared == {k \in b.gpu.bound : ~made.gpu.targets[k].initialized}
    IN  IF b.gpu.pass \/ b.gpu.bound = {} THEN b
        ELSE Recorded([owned EXCEPT !.gpu.pass = TRUE],
                      [Command("pass") EXCEPT !.loses = cleared \cap b.gpu.painted])

\* The op that binds render targets: at most one of colour and one of depth here.
BindTargets(ks, rows) ==
    /\ gpu' = [gpu EXCEPT !.pass = FALSE, !.bound = ks, !.rows = rows]
    /\ UNCHANGED <<queue, pending, latest>>

\* draw: room in both rings, a pass, the constants, then, unless the viewport
\* is empty, the bind groups, the indices and the draw itself.
Draw(pipeline, id, indexed, visible) ==
    LET words == [uniforms |-> 1, indices |-> IF indexed THEN 1 ELSE 0]
        room == MadeRoom(Backend, words)
        b == BeginPass(room)
        draw == [Command("draw") EXCEPT
                    !.uses = {Object(b.gpu.targets[k]) : k \in b.gpu.bound},
                    !.at = [r \in Rings |-> SlotsFor(b, words, r)],
                    !.data = streamed + 1, !.sees = latest]
    IN  /\ IF pipeline \notin gpu.pipelines
           THEN UNCHANGED <<gpu, queue, pending>>
           ELSE IF ~b.gpu.pass THEN Becomes(room)
           ELSE IF ~visible THEN Becomes(Pushed(b, Uniforms(1), streamed + 1))
           ELSE Becomes([Recorded(Pushed(b, words, streamed + 1), draw)
                            EXCEPT !.gpu.groups = @ \cup {GroupFor(b, id)},
                                   !.gpu.painted = @ \cup b.gpu.bound])
        /\ UNCHANGED latest

\* dumpEdram: the owners of the tiles write into the EDRAM buffer.
DumpEdram(k, rows) ==
    LET owners == {gpu.tiles[t] : t \in TilesOf(k, rows)} \ {NoTarget}
        first == CHOOSE o \in owners : TRUE
        rest == owners \ {first}
        dumped(b, o) == Computed(b, [Command("compute") EXCEPT !.uses = {o}, !.sees = latest], 1)
        one == dumped(EndPass(Backend), first)
    IN  /\ IF owners = {} THEN UNCHANGED <<gpu, queue, pending>>
           ELSE Becomes(IF rest = {} THEN one ELSE dumped(one, CHOOSE o \in rest : TRUE))
        /\ UNCHANGED latest

\* resolve: the resolve copy shader writes a page of the shared memory.
Resolve(p) ==
    IF p \in LostPages \/ "resolve copy" \notin gpu.shaders
    THEN UNCHANGED <<gpu, queue, pending, latest>>
    ELSE /\ Becomes(Computed(EndPass(Backend), [Command("resolve") EXCEPT !.page = p, !.sees = latest], 1))
         /\ latest' = [latest EXCEPT ![p] = streamed + 1]

\* clear: a whole target by its load operation, a part of it by a draw.  What
\* does not fit is submitted and the clear starts over.
Clear(k, whole) ==
    LET b == IF whole THEN EndPass(Backend) ELSE MadeRoom(EndPass(Backend), Uniforms(1))
        c == [Command("clear") EXCEPT !.uses = {Object(gpu.targets[k])}, !.sees = latest]
    IN  /\ IF gpu.targets[k] = NoTarget
           THEN gpu' = [gpu EXCEPT !.pass = FALSE] /\ UNCHANGED <<queue, pending>>
           ELSE Becomes([Computed(b, c, IF whole THEN 0 ELSE 1)
                            EXCEPT !.gpu.targets[k].initialized = TRUE, !.gpu.painted = @ \cup {k}])
        /\ UNCHANGED latest

\* The swap: the front buffer is what the texture cache has for it.
Swap(id) ==
    /\ Becomes([Submit(Backend) EXCEPT !.gpu.front = ViewOf(Backend, id)])
    /\ UNCHANGED latest

\* present, between the replays: there has to be a front buffer.
Present ==
    /\ gpu.front # 0
    /\ Becomes(Submit(Backend))
    /\ UNCHANGED <<streamed, latest>>

-----------------------------------------------------------------------------

\* replayWords: one command of the stream.
ReplayOne ==
    /\ streamed < MaxStream
    /\ streamed' = streamed + 1
    /\ \/ \E p \in GpuPages \cup LostPages, n \in {1, StagingSlots + 1} : Upload(p, n)
       \/ \E ok \in BOOLEAN : DefineShader("shader", ok)
       \/ \E id \in {"texture load", "resolve copy"}, ok \in BOOLEAN : DefineLoadShader(id, ok)
       \/ \E ok \in BOOLEAN : DefinePipeline("pipeline", {"shader"}, ok)
       \/ \E rows \in 1 .. MaxRows : BindTargets({}, rows)
       \/ \E k, l \in TargetKeys, rows \in 1 .. MaxRows : BindTargets({k, l}, rows)
       \/ \E id \in TextureIds, indexed, visible \in BOOLEAN : Draw("pipeline", id, indexed, visible)
       \/ \E id \in TextureIds : Swap(id)
       \/ \E id \in TextureIds, n \in 1 .. 2 : LoadTexture(id, n, 1)
       \/ \E id \in TextureIds, known \in BOOLEAN : DefineTexture(id, known)
       \/ \E k \in TargetKeys, rows \in 1 .. MaxRows : DumpEdram(k, rows)
       \/ \E p \in GpuPages \cup LostPages : Resolve(p)
       \/ \E k \in TargetKeys, whole \in BOOLEAN : Clear(k, whole)

GpuNext == ReplayOne \/ Present

-----------------------------------------------------------------------------
(* Properties                                                              *)

\* Every command that reads shared memory reads what was there when it was
\* recorded: the uploads and resolves before it and none after it (upload,
\* with its staging buffer and its direct write).  What a rejected submit lost
\* stays lost, so this is claimed until one was rejected.
CommandsSeeTheirMemory ==
    ~gpu.lost =>
        \A i \in DOMAIN pending : \A p \in DOMAIN pending[i].sees :
            MemoryAt(Backend, i, p) = pending[i].sees[p]

\* Every recorded command finds its own constants and indices in the rings.
CommandsSeeTheirConstants ==
    \A i \in DOMAIN pending : \A r \in Rings : \A s \in pending[i].at[r] :
        queue.ring[r][s] = pending[i].data

\* A recorded command names no scratch buffer, texture or target that has been
\* destroyed, so that its submit is not rejected: except that the growing of a
\* target dooms its own copy and what was recorded with the old one before
\* (submit, target, loadTexture, dumpEdram).
OnlyGrowthDooms ==
    \A i \in DOMAIN pending : \A o \in pending[i].uses \cap gpu.destroyed :
        \E j \in i .. Len(pending) : pending[j].op = "grow" /\ o \in pending[j].uses

\* An EDRAM tile belongs to a target that is still there, or to none
\* (tileOwner, which dumpEdram follows).
OwnersAreCurrent ==
    \A t \in DOMAIN gpu.tiles :
        gpu.tiles[t] # NoTarget => \E k \in TargetKeys :
            gpu.targets[k] # NoTarget /\ gpu.tiles[t] = Object(gpu.targets[k])

\* No render pass clears a target that was drawn to or cleared before, even if
\* the target has been replaced by a taller one since (beginPass, target).
\* Whether the copy of its contents ran is not what this says.
ContentsAreLoaded == \A i \in DOMAIN pending : pending[i].loses = {}

\* A bind group that is kept shows the texture the draw names (textureGroups).
GroupsAreCurrent == \A g \in gpu.groups : g.view = ViewOf(Backend, g.id)

\* What a command was recorded with is still there when it is submitted:
\* memory, constants, scratch buffers, render targets and textures, except
\* where a target grew in between.
CommandsSeeTheirs ==
    /\ GpuTypeOK
    /\ CommandsSeeTheirMemory
    /\ CommandsSeeTheirConstants
    /\ OnlyGrowthDooms
    /\ OwnersAreCurrent
    /\ ContentsAreLoaded
    /\ GroupsAreCurrent
=============================================================================
