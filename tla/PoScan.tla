------------------------------- MODULE PoScan -------------------------------
(***************************************************************************)
(* Seals and models: consensus/poscan, consensus/poscan-pow, the header    *)
(* checks of consensus/sc-consensus-pow, the runtime's PowVerifyApi and    *)
(* node/src/object_rpc.rs, over a chain that upgrades its generator.       *)
(*                                                                         *)
(* Hashes are injective: a header's hash is the header and a digest is the *)
(* tuple of what went into it, next to the number it reads as.  The mesh   *)
(* of an attempt is the body Asteroid grows, named by its generator and    *)
(* its seed; scans of two meshes may agree once quantized.  The difficulty *)
(* falls as time passes: PowImport and Difficulty model where it comes     *)
(* from.                                                                   *)
(***************************************************************************)
EXTENDS Asteroid

CONSTANTS
    Authors,       \* authors a block can name in its pre-runtime digest
    Nonces,        \* nonces tried
    Width,         \* bits of a work value, 256 in the code
    Features,      \* what a scan finds, by generator and nonce
    Unscannable,   \* pairs of generator and nonce whose mesh does not scan
    QUANT_STEP,    \* the width of a bucket
    Difficulties,  \* the difficulties a block can have to meet
    Miner,         \* the author the node mines for
    MaxBlocks      \* bound: blocks imported

VARIABLES
    blocks,        \* headers in the backend, genesis first; a header's
                   \* parent is the position of another
    aux,           \* PowAux: the difficulty each block was verified with
    difficulty,    \* the difficulty of a block made now
    nonce,         \* the next nonce of the miner thread
    best,          \* its strongest work for the head, or None
    refused        \* whether a seal it submitted did not verify

minerVars == <<nonce, best, refused>>
vars == <<growVars, blocks, aux, difficulty, minerVars>>

-----------------------------------------------------------------------------
POSCAN_PROTOCOL == "poscan-v1"
MAX == 2 ^ Width - 1
None == [none |-> TRUE]

(* The runtime a block's state carries: an upgrade in a block takes effect   *)
(* for its children.                                                         *)
Genesis == [parent |-> 0, version |-> 1, logs |-> <<>>]

derive_seed(pre_hash, n) == <<POSCAN_PROTOCOL, pre_hash, n>>

(* Compute::mesh. *)
mesh(version, pre_hash, n) ==
    [generator |-> version, seed |-> derive_seed(pre_hash, n)]

(* spectral3d::scan, and the number a hash reads as. *)
scan(grown) == Features[grown.generator, grown.seed[3]]

Scans(version, n) == <<version, n>> \notin Unscannable

Number(pre_hash, bucket) == (5 * bucket + 3 * pre_hash.parent) % (MAX + 1)

quantize(feature) == (feature + QUANT_STEP \div 2) \div QUANT_STEP

(* Mutant: only the seed ties the work to its block. *)
hash_buckets_unbound(bucket, pre_hash) ==
    [digest |-> <<POSCAN_PROTOCOL, bucket>>, num |-> Number(pre_hash, bucket)]

hash_buckets(bucket, pre_hash) ==
    [digest |-> <<POSCAN_PROTOCOL, pre_hash, bucket>>,
     num |-> Number(pre_hash, bucket)]

(* Compute::work. *)
work(version, pre_hash, n) ==
    IF Scans(version, n)
    THEN hash_buckets(quantize(scan(mesh(version, pre_hash, n))), pre_hash)
    ELSE None

hash_meets_difficulty(num, target) == num * target <= MAX

(* verify_seal in the runtime of a version.  A seal with bytes left over     *)
(* does not decode, and the runtime API answers false for it.                *)
verify_seal(version, pre_hash, raw, target) ==
    /\ raw.form = "seal"
    /\ hash_meets_difficulty(raw.work.num, target)
    /\ work(version, pre_hash, raw.nonce) = raw.work

(* WireMesh::from(Compute.mesh()). *)
generate_mesh(version, pre_hash, n) == mesh(version, pre_hash, n)

-----------------------------------------------------------------------------
(* Digests and headers. *)

PreRuntime(id, data) == [kind |-> "PreRuntime", id |-> id, data |-> data]
Seal(id, raw) == [kind |-> "Seal", id |-> id, data |-> raw]

Popped(header) == [header EXCEPT !.logs = Front(@)]

(* PowVerifier::check_header, which parts the seal from its header, then     *)
(* fetch_seal on the seal it passed on.                                      *)
check_header(header) ==
    IF header.logs = <<>> \/ Last(header.logs).kind # "Seal"
    THEN "HeaderUnsealed"
    ELSE IF Last(header.logs).id # "pow_" THEN "WrongEngine" ELSE "ok"

find_pre_digest(header) ==
    IF Cardinality({k \in DOMAIN header.logs :
                        /\ header.logs[k].kind = "PreRuntime"
                        /\ header.logs[k].id = "pow_"}) > 1
    THEN "MultiplePreRuntimeDigests"
    ELSE "ok"

(* PoScanAlgorithm::verify asks the runtime of the parent. *)
verify(header, raw) ==
    verify_seal(blocks[header.parent].version, header, raw, difficulty)

Accepted(header) ==
    /\ check_header(header) = "ok"
    /\ find_pre_digest(Popped(header)) = "ok"
    /\ verify(Popped(header), Last(header.logs).data)

(* Mutant: the mesh is replayed by the block's own runtime. *)
get_object_late(hash) ==
    LET header == blocks[hash]
    IN  IF check_header(header) # "ok" \/ Last(header.logs).data.form = "garbage"
        THEN None
        ELSE generate_mesh(header.version, Popped(header), Last(header.logs).data.nonce)

(* ObjectExport::get_object: the mesh of a block, or None where an error is  *)
(* returned.  The seal decodes here whatever follows it.                     *)
get_object(hash) ==
    LET header == blocks[hash]
    IN  IF check_header(header) # "ok" \/ Last(header.logs).data.form = "garbage"
        THEN None
        ELSE generate_mesh(blocks[header.parent].version, Popped(header),
                           Last(header.logs).data.nonce)

-----------------------------------------------------------------------------
Init ==
    /\ GrowInit
    /\ blocks = <<Genesis>>
    /\ aux = <<0>>
    /\ difficulty = Max(Difficulties)
    /\ nonce = Min(Nonces)
    /\ best = None
    /\ refused = FALSE

Growing == Grow /\ UNCHANGED <<blocks, aux, difficulty, minerVars>>

(* The unsealed headers the network may offer: on any block, by any author,  *)
(* with or without an upgrade, and with digests of other engines.            *)
Unsealed ==
    [parent : DOMAIN blocks, version : {1, 2},
     logs : {<<PreRuntime("pow_", a)>> : a \in Authors}
            \cup {<<PreRuntime("BABE", a), PreRuntime("pow_", a)>> : a \in Authors}
            \cup {<<PreRuntime("pow_", a), PreRuntime("pow_", a)>> : a \in Authors}]

(* The seals it may put on one: a scan by either generator, with or without  *)
(* bytes left over, bytes that are no seal, and the seal of another block.   *)
Raws(header) ==
    UNION {{[form |-> form, nonce |-> n, work |-> work(v, header, n)] :
                form \in {"seal", "long"}, n \in {m \in Nonces : Scans(v, m)}} :
           v \in {1, 2}}
    \cup {[form |-> "garbage"]}
    \cup {Last(blocks[k].logs).data : k \in 2 .. Len(blocks)}

Sealed(header) ==
    {header} \cup
    {[header EXCEPT !.logs = Append(@, Seal(id, raw))] :
        id \in {"pow_", "BABE"}, raw \in Raws(header)}

(* A block arrives from the network.  One whose header does not check out is *)
(* refused without a trace.                                                  *)
Import(header) ==
    /\ i = -1 /\ level = SUBDIVISIONS
    /\ Len(blocks) <= MaxBlocks
    /\ header.version >= blocks[header.parent].version
    /\ header \notin Range(blocks)
    /\ Accepted(header)
    /\ blocks' = Append(blocks, header)
    /\ aux' = Append(aux, difficulty)
    /\ UNCHANGED <<growVars, difficulty, minerVars>>

(* The difficulty falls while no block comes. *)
Ease(lower) ==
    /\ i = -1
    /\ lower < difficulty
    /\ difficulty' = lower
    /\ UNCHANGED <<growVars, blocks, aux, minerVars>>


(* "A new head retires the saved work; it was bound to the prior pre_hash."  *)
Retired(saved, pre_hash) ==
    IF saved # None /\ saved.pre_hash # pre_hash THEN None ELSE saved

(* "Highest difficulty this work satisfies." *)
max_difficulty(num) == IF num = 0 THEN MAX ELSE MAX \div num

Stronger(saved, pre_hash, found) ==
    IF found # None /\ (saved = None \/ max_difficulty(found.num) > saved.max_difficulty)
    THEN [pre_hash |-> pre_hash, nonce |-> nonce, work |-> found,
          max_difficulty |-> max_difficulty(found.num)]
    ELSE saved

(* The unsealed block the node's own miner works on, on the latest block. *)
Candidate == [parent |-> Len(blocks), version |-> Last(blocks).version,
         logs |-> <<PreRuntime("pow_", Miner)>>]

(* One turn of spawn_internal_miner's loop.  The nonce wraps around. *)
Mine ==
    LET found == work(Candidate.version, Candidate, nonce)
        held == Stronger(Retired(best, Candidate), Candidate, found)
        seal == [form |-> "seal", nonce |-> held.nonce, work |-> held.work]
        header == [Candidate EXCEPT !.logs = Append(@, Seal("pow_", seal))]
    IN  /\ i = -1 /\ level = SUBDIVISIONS
        /\ Len(blocks) <= MaxBlocks
        /\ nonce' = (nonce + 1) % (Max(Nonces) + 1)
        /\ IF held # None /\ difficulty <= held.max_difficulty
           THEN /\ best' = None
                /\ refused' = (refused \/ ~Accepted(header))
                /\ blocks' = IF Accepted(header) THEN Append(blocks, header) ELSE blocks
                /\ aux' = IF Accepted(header) THEN Append(aux, difficulty) ELSE aux
           ELSE /\ best' = held
                /\ UNCHANGED <<blocks, aux, refused>>
        /\ UNCHANGED <<growVars, difficulty>>

Next ==
    \/ Growing
    \/ \E bare \in Unsealed : \E header \in Sealed(bare) : Import(header)
    \/ \E lower \in Difficulties : Ease(lower)
    \/ Mine

Spec == Init /\ [][Next]_vars

-----------------------------------------------------------------------------
SealOf(k) == Last(blocks[k].logs).data

(* "An exported model is the exact mesh the work value committed to": of     *)
(* every block but genesis the export returns a mesh, and scanning it gives  *)
(* the work in the block's seal, also across an upgrade of the generator.    *)
ExportFaithful ==
    \A k \in 2 .. Len(blocks) :
        /\ get_object(k) # None
        /\ hash_buckets(quantize(scan(get_object(k))), Popped(blocks[k])) = SealOf(k).work


(* "Work stays block-specific": no two blocks but nonces of one header carry *)
(* the same work, though scans of any two may agree, and every work is       *)
(* within the target the difficulty stands for, MAX / difficulty.            *)
WorkOwnAndEnough ==
    \A k \in 2 .. Len(blocks) :
        /\ SealOf(k).work.num <= MAX \div aux[k]
        /\ \A j \in 2 .. Len(blocks) :
                SealOf(j).work = SealOf(k).work => Popped(blocks[j]) = Popped(blocks[k])
=============================================================================
