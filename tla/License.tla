------------------------------- MODULE License -------------------------------
(***************************************************************************)
(* One row of the master's licenses table and everything that writes it:   *)
(* the admin panel (internal/master/handlers/admin.go), the plan manager   *)
(* (internal/master/plan/plan.go) and the statements of                    *)
(* internal/master/db/license.go.                                          *)
(*                                                                         *)
(* Some operations are one SQL statement.  The others read the row, change *)
(* a copy and write every mutable column of it back with UpdateLicense, in *)
(* two statements with no transaction around them: an operation is then a  *)
(* Read and a Write of its goroutine, and others may come between.         *)
(***************************************************************************)
EXTENDS Naturals

CONSTANTS Requests,   \* goroutines that read the row and write it back
          Plans,      \* the plans sold, "community" among them
          Ops,        \* the operations that are called
          MaxNow,     \* bound: the last day that is explored
          NoRow, Nothing

ReadWriteOps == {"Activate", "Suspend", "Upgrade", "Update", "Downgrade", "CheckExpiry"}
Statuses == {"active", "suspended", "revoked", "expired", "downgraded"}
Rows == [plan : Plans, status : Statuses, expires : Nat, days : {0, 1}]
InProgress == [op : ReadWriteOps, seen : Rows]

ASSUME LicenseAssumption ==
  /\ "community" \in Plans
  /\ Ops \subseteq ReadWriteOps \cup {"Renew", "Revoke", "Rotate", "Delete"}
  /\ MaxNow \in Nat
  /\ NoRow \notin Rows
  /\ Nothing \notin InProgress

VARIABLES row,        \* plan, status, expires_at and valid_days, or NoRow
          keyKnown,   \* license_key is still the one the node is configured with
          now,        \* days since the license was issued
          req         \* per goroutine: what it is doing, with the row it read

licenseVars == <<row, keyKnown, now, req>>

Perpetual == 0        \* the zero time of expires_at
Expired(l) == l.expires # Perpetual /\ l.expires <= now

LicenseTypeOK ==
  /\ row \in Rows \cup {NoRow}
  /\ keyKnown \in BOOLEAN
  /\ now \in Nat
  /\ req \in [Requests -> InProgress \cup {Nothing}]

\* A node that registered itself, or a license the admin created for some days.
Registered == [plan |-> "community", status |-> "active", expires |-> Perpetual, days |-> 0]
Created == [plan : Plans, status : {"active"}, expires : {2}, days : {1}]

LicenseInit ==
  /\ row \in Created \cup {Registered}
  /\ keyKnown = TRUE
  /\ now = 1
  /\ req = [r \in Requests |-> Nothing]

-----------------------------------------------------------------------------
(* The first half: GetLicenseByID, or ListLicenses and CheckExpiry's tests.  *)
Due(l) == l.plan # "community" /\ Expired(l) /\ l.status # "suspended"

Read(r, op) ==
  /\ req[r] = Nothing
  /\ op \in Ops \cap ReadWriteOps
  /\ row # NoRow
  /\ op = "CheckExpiry" => Due(row)
  /\ req' = [req EXCEPT ![r] = [op |-> op, seen |-> row]]
  /\ UNCHANGED <<row, keyKnown, now>>

(* What each operation makes of the copy it read.                            *)
UpgradedForever(p) ==      \* mutant: expires_at is not set
  [plan |-> p, status |-> "active", expires |-> Perpetual, days |-> 1]

Upgraded(p) == [plan |-> p, status |-> "active", expires |-> now + 1, days |-> 1]

EditForm(l) ==
  [plan : Plans, status : Statuses, expires : {l.expires}, days : {l.days, 1}]

ToCommunity ==
  [plan |-> "community", status |-> "downgraded", expires |-> Perpetual, days |-> 0]

Outcomes(op, l) ==
  CASE op = "Activate" -> {[l EXCEPT !.status = "active"]}
    [] op = "Suspend"  -> {[l EXCEPT !.status = "suspended"]}
    [] op = "Upgrade"  -> {Upgraded(p) : p \in Plans \ {"community"}}
    [] op = "Update"   -> EditForm(l)
    [] op \in {"Downgrade", "CheckExpiry"} -> {ToCommunity}

WriteWithoutEnd(r) ==      \* mutant: expires_at is not among the columns
  /\ req[r] # Nothing
  /\ \/ /\ row # NoRow
        /\ \E l \in Outcomes(req[r].op, req[r].seen) : row' = [l EXCEPT !.expires = row.expires]
     \/ row = NoRow /\ UNCHANGED row
  /\ req' = [req EXCEPT ![r] = Nothing]
  /\ UNCHANGED <<keyKnown, now>>

(* The second half, UpdateLicense: every mutable column, where the row still  *)
(* exists; the license key is not one of them.                               *)
Write(r) ==
  /\ req[r] # Nothing
  /\ \/ row # NoRow /\ row' \in Outcomes(req[r].op, req[r].seen)
     \/ row = NoRow /\ UNCHANGED row
  /\ req' = [req EXCEPT ![r] = Nothing]
  /\ UNCHANGED <<keyKnown, now>>

\* A statement that fails leaves the row as it is.
WriteFails(r) ==
  /\ req[r] # Nothing
  /\ req' = [req EXCEPT ![r] = Nothing]
  /\ UNCHANGED <<row, keyKnown, now>>

(* The operations that are a single statement.                               *)
Renewed(l) == [l EXCEPT !.status = "active", !.expires = now + l.days]

Renew ==
  /\ "Renew" \in Ops
  /\ row # NoRow
  /\ row' = Renewed(row)
  /\ UNCHANGED <<keyKnown, now, req>>

Revoke ==
  /\ "Revoke" \in Ops
  /\ row # NoRow
  /\ row' = [row EXCEPT !.status = "revoked"]
  /\ UNCHANGED <<keyKnown, now, req>>

Rotate ==
  /\ "Rotate" \in Ops
  /\ row # NoRow
  /\ keyKnown' = FALSE
  /\ UNCHANGED <<row, now, req>>

Delete ==
  /\ "Delete" \in Ops
  /\ row # NoRow
  /\ row' = NoRow
  /\ UNCHANGED <<keyKnown, now, req>>

DayPasses ==
  /\ now < MaxNow
  /\ now' = now + 1
  /\ UNCHANGED <<row, keyKnown, req>>

Statement == Renew \/ Revoke \/ Rotate \/ Delete

LicenseNext ==
  \/ \E r \in Requests :
       (\E op \in Ops : Read(r, op)) \/ Write(r) \/ WriteFails(r)
  \/ Statement
  \/ DayPasses

LicenseSpec == LicenseInit /\ [][LicenseNext]_licenseVars

-----------------------------------------------------------------------------
\* A paid plan is never perpetual: every operation but the edit form, which
\* changes the plan and leaves expires_at, gives the two together, and writing
\* back a stale copy brings back a plan with the date it was sold with.
PaidPlanEnds ==
  row # NoRow /\ row.plan # "community" => row.expires # Perpetual
=============================================================================
