--------------------------- MODULE SandboxPreflight ---------------------------
(***************************************************************************)
(* What the preflight concludes about a codex sandbox without starting a   *)
(* model.  A probe script runs inside the sandbox and reports what it      *)
(* could do; the host then looks whether the writes are really there.      *)
(*                                                                         *)
(* A sandbox is what it does with each capability under each permission    *)
(* profile: it works, is denied, or works privately, so that the script    *)
(* sees its effect and the host does not.  A constant module.              *)
(***************************************************************************)

Profile == {":read-only", ":workspace"}

\* _PROBE_NAMES after sandbox_launch, which a completed command proves.
Probe == {"subprocess", "workspace_read", "workspace_write", "outside_workspace_read",
          "outside_workspace_write", "network_connect"}

Writes == {"workspace_write", "outside_workspace_write"}

\* The probes whose capability must be denied.
Denied(profile) ==
    {"outside_workspace_read", "outside_workspace_write", "network_connect"}
        \cup (IF profile = ":read-only" THEN {"workspace_write"} ELSE {})

Behaviour == [Probe -> {"works", "denied", "private"}]
Sandbox == {s \in [Profile -> Behaviour] :
               \A profile \in Profile, probe \in Probe \ Writes : s[profile][probe] # "private"}

\* A sandbox a worker may be given: everything as the profile promises it.
Sound(s) ==
    \A profile \in Profile, probe \in Probe :
        s[profile][probe] = IF probe \in Denied(profile) THEN "denied" ELSE "works"

\* What the script reports: a capability expected to be denied passes when it is.
Reported(s, profile) ==
    {probe \in Probe : (s[profile][probe] = "denied") <=> (probe \in Denied(profile))}

\* run_sandbox_preflight trusting the script's word on the writes.
ReportedReady(s, profile, reports) == Probe \subseteq Reported(s, profile) \cap reports

\* run_sandbox_preflight: every probe reported and passed, and the host finds
\* the write the profile allows, and none that it denies.
ProfileReady(s, profile, reports) ==
    /\ Probe \subseteq Reported(s, profile) \cap reports
    /\ "workspace_write" \notin Denied(profile) => s[profile]["workspace_write"] = "works"
    /\ \A probe \in Writes \cap Denied(profile) : s[profile][probe] # "works"

\* run_worker_sandbox_preflight: both profiles of the protocol.
WorkerReady(s, reports) == \A profile \in Profile : ProfileReady(s, profile, reports)

=============================================================================
