--------------------------- MODULE MainProjection ---------------------------
(***************************************************************************)
(* evaluateMainProjection (main-projection-adapter.ts): the main thread    *)
(* receives projections a worker made of the session and decides whether   *)
(* to show them.                                                           *)
(*                                                                         *)
(* The adapter keeps nothing; its caller gives it the session version it   *)
(* has reached and the bounds, and shows what the adapter lets through.    *)
(* Projections are made at one time and evaluated at another: any of       *)
(* Projection may arrive at any version, in any order, more than once.     *)
(***************************************************************************)
EXTENDS ProjectionPolicy, AdmissionPolicy

CONSTANTS
  BlockId,
  Projection,         \* the projections the worker may send
  BoundsChoice,       \* the bounds the caller may give
  MaxSessionVersion,  \* bound: the last session version
  Nothing             \* no projection shown, no decision made

ProjectionType ==
  [form : {"ok", "missing-field", "bad-version"}, transferable : BOOLEAN,
   session_version : Nat, result_version : Nat, stale_status : StaleStatus,
   blocks : Seq(BlockId), range : SUBSET BlockId, bytes : Nat,
   checksum : BOOLEAN]

BoundsType ==
  [max_blocks : Nat, max_result_bytes : Nat, require_checksum : BOOLEAN,
   allow_stale_compatible : BOOLEAN]

ASSUME ProjectionAssumption ==
  /\ Projection \subseteq ProjectionType
  /\ BoundsChoice \subseteq BoundsType \cup {NoBounds}
  /\ MaxSessionVersion \in Nat
  /\ Nothing \notin Projection

VARIABLES
  current_session_version,  \* external: where the caller's session is
  shown,                    \* external: the projection on the screen
  decision                  \* the last answer, and what it was asked

mainVars == <<current_session_version, shown, decision>>
-----------------------------------------------------------------------------
\* The error of the answer; "none" if the projection may be shown.
MainError(p, current, bounds) ==
  IF p.transferable THEN ProjectionError(p, current, bounds)
                    ELSE "MissingRequiredField"

Answer(p, bounds) ==
  [projection |-> p, bounds |-> bounds, at |-> current_session_version,
   error |-> MainError(p, current_session_version, bounds)]

Commit(p, bounds) ==
  /\ Answer(p, bounds).error = "none"
  /\ decision' = Answer(p, bounds)
  /\ shown' = p
  /\ UNCHANGED current_session_version

RejectProjection(p, bounds) ==
  /\ Answer(p, bounds).error # "none"
  /\ decision' = Answer(p, bounds)
  /\ UNCHANGED <<current_session_version, shown>>

\* The session advances through accepted operations (StateStore).
AdvanceSession ==
  /\ current_session_version < MaxSessionVersion
  /\ current_session_version' = current_session_version + 1
  /\ UNCHANGED <<shown, decision>>

MainInit ==
  /\ current_session_version = 0
  /\ shown = Nothing
  /\ decision = Nothing

MainNext ==
  \/ AdvanceSession
  \/ \E p \in Projection, bounds \in BoundsChoice :
       Commit(p, bounds) \/ RejectProjection(p, bounds)

MainSpec == MainInit /\ [][MainNext]_mainVars
-----------------------------------------------------------------------------
(***************************************************************************)
(* The screen goes back to an older session version only for a projection  *)
(* that says it is compatible: none is ahead of the session when it is     *)
(* shown, and none that is behind gets through unmarked                    *)
(* (projection-policy.ts:203-219).                                         *)
(***************************************************************************)
OnlyCompatibleGoesBack ==
  [][shown # Nothing /\ shown'.session_version < shown.session_version =>
       shown'.stale_status = "compatible"]_shown

(***************************************************************************)
(* What is answered to a stale projection is right.  One refused because   *)
(* the session had passed it stays refused under the same bounds, however  *)
(* often it is sent again and however far the session goes on              *)
(* (projection-policy.ts:207); and the advice works, the same content made *)
(* anew from the session as it is now would be shown, as staleness is      *)
(* reported only when nothing else is wrong (projection-policy.ts:184-219, *)
(* recovery-policy.ts:68).                                                 *)
(***************************************************************************)
StaleAdviceIsSound ==
  decision # Nothing /\ decision.error # "none" =>
    /\ decision.error = "StaleProjectionRejected"
         /\ decision.projection.session_version < decision.at
         => MainError(decision.projection, current_session_version,
                      decision.bounds) # "none"
    /\ GetRecoveryAction(decision.error, "projection")
           = "request-fresh-projection"
         /\ decision.error # "ProjectionTooLarge"
         /\ decision.projection.form = "ok"
         => MainError([decision.projection EXCEPT
                         !.session_version = current_session_version,
                         !.stale_status = "fresh"],
                      current_session_version, decision.bounds) = "none"
=============================================================================
