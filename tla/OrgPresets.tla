----------------------------- MODULE OrgPresets -----------------------------
(***************************************************************************)
(* The organization types of backend/app/core/attendance_policy.py: what   *)
(* PATCH /settings, PATCH /orgs and POST /orgs write when a type is given. *)
(* Titles and labels are wording and left out; the kernel and the switches *)
(* are kept.                                                               *)
(***************************************************************************)

KernelNames == {"daily_presence", "daily_inout", "session", "shift", "visit"}

\* One row of ORG_PRESETS; every preset leaves require_checkout off.
PresetRow(kernel, out, late, early, fence, absent, many) ==
    [kernel |-> kernel, allow_checkout |-> out, track_late |-> late,
     track_early_leave |-> early, geofence_on_self_punch |-> fence,
     auto_absent_at_close |-> absent, allow_multiple_present_per_day |-> many]

OrgPresets ==
    [workplace  |-> PresetRow("daily_inout", TRUE, TRUE, TRUE, TRUE, FALSE, FALSE),
     school     |-> PresetRow("daily_presence", FALSE, TRUE, FALSE, FALSE, TRUE, FALSE),
     college    |-> PresetRow("session", FALSE, TRUE, FALSE, FALSE, FALSE, TRUE),
     training   |-> PresetRow("session", FALSE, TRUE, FALSE, FALSE, FALSE, TRUE),
     shift_ops  |-> PresetRow("shift", TRUE, TRUE, TRUE, TRUE, FALSE, TRUE),
     field      |-> PresetRow("daily_inout", TRUE, TRUE, TRUE, TRUE, FALSE, FALSE),
     event      |-> PresetRow("visit", FALSE, FALSE, FALSE, FALSE, FALSE, TRUE),
     membership |-> PresetRow("visit", TRUE, FALSE, FALSE, FALSE, FALSE, TRUE)]

OrgTypes == DOMAIN OrgPresets \cup {"custom"}

\* apply_org_type: a known type overwrites kernel and switches, "custom"
\* keeps what is there.
ApplyOrgType(profile, type) ==
    IF type \in DOMAIN OrgPresets THEN OrgPresets[type] ELSE profile
============================================================================
