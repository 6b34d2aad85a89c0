--------------------------- MODULE GpuFoundation ---------------------------
(***************************************************************************)
(* What the page does on a WebGPU device beside the Xenos backend: the     *)
(* captured title shaders that are translated and compiled to find out     *)
(* whether WebGPU takes them (render360-xenos-shader-runtime.mjs,          *)
(* render360-spirv-wgsl-runtime.mjs, render360-webgpu-title-shaders.mjs),  *)
(* and the caches and the EDRAM resolve of render360-webgpu-runtime.mjs.   *)
(* A shader is a model value, its SPIR-V, its WGSL and its hash are told   *)
(* by whose they are.                                                      *)
(***************************************************************************)
EXTENDS Naturals, FiniteSets, Sequences, SequencesExt

CONSTANTS
    TitleShaders,   \* the shaders a title loads
    NoShader,       \* nothing is captured, the SPIR-V buffer is empty
    MaxDevices,     \* bound on devices that are requested
    ResolveKeys,    \* the resolve targets that are asked for
    TargetSizes,    \* the dimensions they are asked with
    MaxTargets,     \* maxEntries of the target cache (24)
    Resolvers,      \* resolves that may be under way at once
    MaxTextures     \* bound on textures that are created

ASSUME FoundationAssumption ==
    /\ NoShader \notin TitleShaders
    /\ MaxDevices \in Nat /\ MaxTargets \in Nat \ {0} /\ MaxTextures \in Nat

VARIABLES
    captured,   \* the last shader of each type the core has seen
    spirvBuffer,\* r360_xenos_spirv_buffer: one for both types
    validation, \* a validateCapturedXenosShadersWebGPU that is under way
    moduleCache,\* the modules kept for each device
    converter,  \* converterPromise
    targets,    \* XenosRenderTargetCache: least recently used first
    textures,   \* textures created so far
    destroyed,  \* those destroyed
    pipeline,   \* the resolve's entry in AsyncPipelineCache
    resolving,  \* the resolves under way
    resolved    \* last: texture of the last resolve, 0: none

shaderVars == <<captured, spirvBuffer, validation, moduleCache, converter>>
targetVars == <<targets, textures, destroyed, pipeline, resolving, resolved>>
foundationVars == <<shaderVars, targetVars>>

VertexShader == 0
PixelShader == 1
NoValidation == [at |-> "idle", device |-> 0, type |-> 0, key |-> NoShader, bytes |-> NoShader]

FoundationInit ==
    /\ captured = [type \in 0 .. 1 |-> NoShader] /\ spirvBuffer = NoShader
    /\ validation = NoValidation /\ moduleCache = {} /\ converter = "none"
    /\ targets = <<>> /\ textures = 0 /\ destroyed = {} /\ pipeline = "none"
    /\ resolving = [r \in Resolvers |-> "idle"] /\ resolved = 0

-----------------------------------------------------------------------------
(* Shaders: capture, SPIR-V, WGSL, module.                                 *)

\* The title loads another shader.
CaptureShader(type, s) ==
    /\ captured' = [captured EXCEPT ![type] = s]
    /\ UNCHANGED <<spirvBuffer, validation, moduleCache, converter, targetVars>>

FaultyCopied(buffer, bytes) == buffer

\* translateCapturedXenosShaderToSpirv hands out a copy of the buffer.
Copied(buffer, bytes) == bytes

\* translateCapturedXenosShaderToSpirv: resets and fills the core's buffer.
Translates(type) == spirvBuffer' = captured[type]

\* inspectCapturedXenosShaders, inspectCapturedXenosSpirv: each captured type.
InspectShaders ==
    /\ \E type \in 0 .. 1 : captured[type] # NoShader
    /\ Translates(IF captured[PixelShader] # NoShader THEN PixelShader ELSE VertexShader)
    /\ UNCHANGED <<captured, validation, moduleCache, converter, targetVars>>

\* validateCapturedXenosShadersWebGPU asks for a device of its own.
RequestDevice ==
    /\ validation.at = "idle" /\ validation.device < MaxDevices
    /\ \A type \in 0 .. 1 : captured[type] # NoShader
    /\ validation' = [validation EXCEPT !.at = "key", !.device = @ + 1, !.type = VertexShader]
    /\ UNCHANGED <<captured, spirvBuffer, moduleCache, converter, targetVars>>

NoDevice ==
    /\ validation.at = "key" /\ validation.type = VertexShader
    /\ validation' = [validation EXCEPT !.at = "idle"]
    /\ UNCHANGED <<captured, spirvBuffer, moduleCache, converter, targetVars>>

\* What follows a shader: the pixel shader, then the end.
NextShader(v) ==
    IF v.type = VertexShader THEN [v EXCEPT !.at = "key", !.type = PixelShader, !.bytes = NoShader]
                             ELSE [v EXCEPT !.at = "idle", !.bytes = NoShader]

Cached(device, type, key) ==
    \E m \in moduleCache : m.device = device /\ m.type = type /\ m.key = key

\* compileCapturedXenosShaderForWebGPU up to the converter.
CompileStarts ==
    /\ validation.at = "key" /\ captured[validation.type] # NoShader
    /\ IF Cached(validation.device, validation.type, captured[validation.type])
       THEN validation' = NextShader(validation) /\ UNCHANGED <<spirvBuffer, converter>>
       ELSE /\ Translates(validation.type)
            /\ validation' = [validation EXCEPT !.at = "convert", !.key = captured[validation.type],
                                                !.bytes = captured[validation.type]]
            /\ converter' = IF converter = "none" THEN "loading" ELSE converter
    /\ UNCHANGED <<captured, moduleCache, targetVars>>

\* The translator rejects the shader.
NotTranslated ==
    /\ validation.at = "key" /\ captured[validation.type] # NoShader
    /\ ~Cached(validation.device, validation.type, captured[validation.type])
    /\ spirvBuffer' = NoShader
    /\ validation' = NextShader(validation)
    /\ UNCHANGED <<captured, moduleCache, converter, targetVars>>

\* loadSpirvToWgslConverter: a load that fails is forgotten and ends the call.
ConverterLoads ==
    /\ converter = "loading"
    /\ \/ converter' = "ready" /\ UNCHANGED validation
       \/ converter' = "none" /\ validation' = [validation EXCEPT !.at = "idle", !.bytes = NoShader]
    /\ UNCHANGED <<captured, spirvBuffer, moduleCache, targetVars>>

\* Naga's text becomes a module; only one without errors is kept.
CompileEnds ==
    /\ validation.at = "convert" /\ converter = "ready"
    /\ \E errors \in BOOLEAN :
        moduleCache' = IF errors THEN moduleCache
                       ELSE moduleCache \cup {[device |-> validation.device, type |-> validation.type,
                                               key |-> validation.key,
                                               source |-> Copied(spirvBuffer, validation.bytes)]}
    /\ validation' = NextShader(validation)
    /\ UNCHANGED <<captured, spirvBuffer, converter, targetVars>>

ShaderSteps ==
    \/ \E type \in 0 .. 1, s \in TitleShaders : CaptureShader(type, s)
    \/ InspectShaders \/ RequestDevice \/ NoDevice
    \/ CompileStarts \/ NotTranslated \/ ConverterLoads \/ CompileEnds

-----------------------------------------------------------------------------
(* Render targets and the EDRAM resolve.                                   *)

Held(k) == {i \in DOMAIN targets : targets[i].key = k}

\* evict: the least recently used go.
Evicted(cache) ==
    IF Len(cache) > MaxTargets THEN SubSeq(cache, Len(cache) - MaxTargets + 1, Len(cache)) ELSE cache

TexturesOf(cache) == {cache[i].texture : i \in DOMAIN cache}

\* A key has one entry at most; it leaves the order of use.
WithoutKey(k) == IF Held(k) = {} THEN targets ELSE RemoveAt(targets, CHOOSE i \in Held(k) : TRUE)

\* XenosRenderTargetCache.acquire.
Acquire(k, size) ==
    LET same == {i \in Held(k) : targets[i].size = size}
        entry == IF same # {} THEN targets[CHOOSE i \in same : TRUE]
                 ELSE [key |-> k, size |-> size, texture |-> textures + 1]
        cache == IF same # {} THEN Append(WithoutKey(k), entry)
                 ELSE Evicted(Append(WithoutKey(k), entry))
    IN  /\ same = {} => textures < MaxTextures
        /\ textures' = IF same # {} THEN textures ELSE textures + 1
        /\ targets' = cache
        /\ destroyed' = destroyed \cup ((TexturesOf(targets) \cup {entry.texture}) \ TexturesOf(cache))
        /\ resolved' = entry.texture

\* resolveLinearRGBA waits for the pipeline, compiled once.
ResolveStarts(r) ==
    /\ resolving[r] = "idle"
    /\ resolving' = [resolving EXCEPT ![r] = "compiling"]
    /\ pipeline' = IF pipeline = "none" THEN "pending" ELSE pipeline
    /\ UNCHANGED <<targets, textures, destroyed, resolved, shaderVars>>

\* AsyncPipelineCache forgets what failed.
AfterFailure == "none"

\* createComputePipelineAsync ends; all who wait for it see the same.
PipelineCompiled ==
    /\ pipeline = "pending"
    /\ \/ pipeline' = "ready" /\ UNCHANGED resolving
       \/ /\ pipeline' = AfterFailure
          /\ resolving' = [r \in Resolvers |-> "idle"]
    /\ UNCHANGED <<targets, textures, destroyed, resolved, shaderVars>>

\* The rest of resolveLinearRGBA: acquired, encoded and submitted at once.
ResolveRuns(r, k, size) ==
    /\ resolving[r] = "compiling" /\ pipeline = "ready"
    /\ Acquire(k, size)
    /\ resolving' = [resolving EXCEPT ![r] = "idle"]
    /\ UNCHANGED <<pipeline, shaderVars>>

TargetSteps ==
    \/ \E r \in Resolvers : ResolveStarts(r)
    \/ PipelineCompiled
    \/ \E r \in Resolvers, k \in ResolveKeys, size \in TargetSizes : ResolveRuns(r, k, size)

FoundationNext == ShaderSteps \/ TargetSteps
FoundationSpec == FoundationInit /\ [][FoundationNext]_foundationVars

-----------------------------------------------------------------------------
(* Properties                                                              *)

\* A cached module was made from the shader its key names, however the core's
\* only SPIR-V buffer was overwritten while the converter ran
\* (render360-webgpu-title-shaders.mjs:22-29, shader-runtime :51-58).
ModulesMatchTheirKeys == \A m \in moduleCache : m.source = m.key

\* The texture a resolve wrote and handed out is not one its own eviction
\* destroyed, and the cache never holds a destroyed one
\* (render360-webgpu-runtime.mjs:63-71).
ResolvedTargetLives ==
    /\ resolved \notin destroyed
    /\ TexturesOf(targets) \cap destroyed = {}
    /\ Len(targets) <= MaxTargets

\* A resolve never waits for a pipeline whose compilation has already failed
\* (render360-webgpu-runtime.mjs:32-39).
ResolvesWaitForLiveCompiles ==
    \A r \in Resolvers : resolving[r] = "compiling" => pipeline \in {"pending", "ready"}

\* What the caches of modules, targets and pipelines hand out is what was asked
\* for, and still there.
CachesAreTrue ==
    /\ ModulesMatchTheirKeys
    /\ ResolvedTargetLives
    /\ ResolvesWaitForLiveCompiles
=============================================================================
