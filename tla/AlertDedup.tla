------------------------------ MODULE AlertDedup ------------------------------
(***************************************************************************)
(* AlertDedup of scripts/multi_agent_soc.py: which alerts of a host start  *)
(* an investigation. _seen is a function from the hosts it remembers to    *)
(* the time of their last accepted alert.                                  *)
(***************************************************************************)
EXTENDS Integers, Functions

CONSTANT WINDOW   \* AEGIS_DEDUP_WINDOW, 60 seconds by default

ASSUME WindowAssumption == WINDOW \in Nat \ {0}

\* self._seen.get(ip, 0.0)
LastSeen(seen, ip) == IF ip \in DOMAIN seen THEN seen[ip] ELSE 0

\* Seeded fault for ShouldProcess: an alert exactly WINDOW old still counts.
ShouldProcessLate(seen, ip, now) == ~ (now - LastSeen(seen, ip) <= WINDOW)

\* should_process returns False while now - last < window.
ShouldProcess(seen, ip, now) == ~ (now - LastSeen(seen, ip) < WINDOW)

Cutoff(now) == now - WINDOW * 10

\* Seeded fault for Entered: the end of the host's window is stored.
EnteredUntil(seen, ip, now) ==
    [h \in DOMAIN seen \cup {ip} |-> IF h = ip THEN now + WINDOW ELSE seen[h]]

\* The table after an accepted alert: the host is entered, then every entry
\* not younger than the cutoff is dropped.
Entered(seen, ip, now) ==
    [h \in DOMAIN seen \cup {ip} |-> IF h = ip THEN now ELSE seen[h]]

\* Seeded fault for SeenAfter: the clean-up drops the young entries.
SeenAfterInverted(seen, ip, now) ==
    LET entered == Entered(seen, ip, now)
    IN  Restrict(entered, {h \in DOMAIN entered : entered[h] <= Cutoff(now)})

SeenAfter(seen, ip, now) ==
    LET entered == Entered(seen, ip, now)
    IN  Restrict(entered, {h \in DOMAIN entered : entered[h] > Cutoff(now)})
=============================================================================
