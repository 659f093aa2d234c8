------------------------------- MODULE MartStore -------------------------------
(***************************************************************************)
(* What the mart artifact of dal/pipeline.py promises to the callers of    *)
(* load(): at any moment there is either nothing to load or one complete   *)
(* build, and the database content that the loadable builds were computed  *)
(* from never goes backwards.                                              *)
(***************************************************************************)
EXTENDS Naturals

CONSTANTS Build,    \* the builds: records with at least fields lo, hi, whole
          None      \* no build

VARIABLES visible,  \* the build load() would return now, or None
          served,   \* the last build that was visible, or None
          banned    \* the hidden build is one a contract violation condemned

storeVars == <<visible, served, banned>>

(* b was read from database versions none of which is older than any a saw. *)
NotBefore(b, a) == a = None \/ b = a \/ a.hi <= b.lo

StoreInit == visible = None /\ served = None /\ banned = FALSE

(* A build replaces what was visible, or is seen after nothing was; never a *)
(* condemned one.                                                           *)
Reveal ==
  /\ visible' \in Build
  /\ visible'.whole
  /\ NotBefore(visible', served)
  /\ served' = visible'
  /\ ~banned'

(* Nothing is loadable; a build may be condemned or discarded meanwhile. *)
Hide ==
  /\ visible' = None
  /\ banned' \in BOOLEAN
  /\ UNCHANGED served

StoreNext == Hide \/ Reveal

StoreSpec == StoreInit /\ [][StoreNext]_storeVars
================================================================================
