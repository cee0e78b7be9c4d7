----------------------------- MODULE LicenseSales -----------------------------
(***************************************************************************)
(* License with a record of what was sold, for what a row may say after    *)
(* operations that read it at different times have written it back.        *)
(***************************************************************************)
EXTENDS License

VARIABLE sold     \* each paid plan that was sold, with the day on which it ends

salesVars == <<row, keyKnown, now, req, sold>>

SalesInit == LicenseInit /\ sold = IF row.plan = "community" THEN {} ELSE {<<row.plan, row.expires>>}

\* The admin sells by the upgrade form and by renewing a row that has a paid plan.
Upgrading == {r \in Requests : row # NoRow /\ req[r] # Nothing /\ req[r].op = "Upgrade" /\ Write(r)}
Renewing == row # NoRow /\ row.plan # "community" /\ Renew

SalesNext ==
  /\ LicenseNext
  /\ sold' = sold \cup {<<row'.plan, now + 1>> : r \in Upgrading}
                  \cup IF Renewing THEN {<<row.plan, now + row.days>>} ELSE {}

SalesSpec == SalesInit /\ [][SalesNext]_salesVars

-----------------------------------------------------------------------------
\* A paid plan is one that was sold, and has the very end that it was sold with, in any
\* order of operations.  One that read the row before a downgrade and writes its copy
\* after it does bring the plan back, since UpdateLicense writes every column
\* (db/license.go:148-167); but never with a day more than somebody paid for, so that a
\* plan that has run out is still one to the heartbeat, and to the next CheckExpiry.
PaidAsSold ==
  row # NoRow /\ row.plan # "community" => <<row.plan, row.expires>> \in sold
===============================================================================
