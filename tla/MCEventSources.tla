---------------------------- MODULE MCEventSources ---------------------------
(* Two nodes; cron with one rule that comes and goes; a poller with a
   concurrency of 3, 2 for each poller, and up to 3 containers. *)
EXTENDS EventSources

MCRoles == {CronRole} \cup UNION {ToRoleIdConcurrency(ToMaxConcurrency(k)) : k \in Counts}
=============================================================================
