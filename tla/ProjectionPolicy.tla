-------------------------- MODULE ProjectionPolicy --------------------------
(***************************************************************************)
(* projection-policy.ts: whether a projection a worker produced may be     *)
(* shown, given the session version its receiver knows.                    *)
(*                                                                         *)
(* A projection is a record: form says whether its fields are there        *)
(* ("ok"), one is missing ("missing-field") or its session_version is not  *)
(* a natural ("bad-version"); blocks is the sequence of its block ids, and *)
(* bytes the sum of their estimated sizes; checksum says whether it has    *)
(* one; range lists the blocks its visible range names.                    *)
(***************************************************************************)
EXTENDS Integers, Sequences, DecisionTable

CONSTANT NoBounds

StaleStatus == {"fresh", "compatible", "stale"}

IsStaleProjection(session_version, current) == session_version < current

NoDuplicateBlocks(blocks_shown) ==
  \A i, j \in 1 .. Len(blocks_shown) :
    blocks_shown[i] = blocks_shown[j] => i = j

RangeIsShown(p) ==
  \A b \in p.range : \E i \in 1 .. Len(p.blocks) : p.blocks[i] = b

\* validateProjectionBounds collects every error; the first one is kept.
BoundsTable(p, bounds) ==
  << [passed |-> p.form # "missing-field", error |-> "MissingRequiredField"],
     [passed |-> p.form # "bad-version", error |-> "StaleProjectionRejected"],
     [passed |-> Len(p.blocks) <= bounds.max_blocks,
      error |-> "ProjectionTooLarge"],
     [passed |-> NoDuplicateBlocks(p.blocks) /\ RangeIsShown(p),
      error |-> "EquivalenceMismatch"],
     [passed |-> p.bytes <= bounds.max_result_bytes,
      error |-> "ProjectionTooLarge"] >>

\* validateProjectionChecksumPresence.
ChecksumTable(p, bounds) ==
  << [passed |-> bounds.require_checksum => p.checksum,
      error |-> "InvalidChecksum"] >>

\* Seeded fault: the worker's own stale_status is taken for the truth.
VersionTable_trusting(p, current, bounds) ==
  << [passed |-> p.session_version <= current /\ p.stale_status # "stale",
      error |-> "StaleProjectionRejected"] >>

VersionTable(p, current, bounds) ==
  << [passed |-> p.session_version <= current,
      error |-> "StaleProjectionRejected"],
     [passed |-> IsStaleProjection(p.session_version, current) =>
                   /\ bounds.allow_stale_compatible
                   /\ p.stale_status = "compatible",
      error |-> "StaleProjectionRejected"],
     [passed |-> ~IsStaleProjection(p.session_version, current) =>
                   p.stale_status # "stale",
      error |-> "StaleProjectionRejected"] >>

\* Seeded fault: the versions are looked at before the bounds.
CommitTable_versionsFirst(p, current, bounds) ==
  VersionTable(p, current, bounds) \o BoundsTable(p, bounds)
    \o ChecksumTable(p, bounds)

\* shouldCommitProjection: bounds, checksum, then the versions.
CommitTable(p, current, bounds) ==
  BoundsTable(p, bounds) \o ChecksumTable(p, bounds)
    \o VersionTable(p, current, bounds)

ShouldCommitProjection(p, current, bounds) ==
  bounds # NoBounds /\ AllPass(CommitTable(p, current, bounds))

\* The error of a refused projection; "none" for one that commits.
ProjectionError(p, current, bounds) ==
  IF bounds = NoBounds THEN "MissingRequiredField"
  ELSE FirstFailure(CommitTable(p, current, bounds)
                      \o << [passed |-> FALSE, error |-> "none"] >>).error
=============================================================================
