------------------------ MODULE MCNotificationCenter ------------------------
(* A platform administrator outside the organization and a viewer in it, with *)
(* channels of three kinds.                                                   *)
EXTENDS NotificationCenter, TLC

CONSTANTS ann, bob, acme, umbra, arm, leg, app, hook, text

Row(role, org, active) == [role |-> role, is_superuser |-> FALSE, org |-> org,
                           is_active |-> active, is_service_account |-> FALSE]

MCDeviceOrg == (arm :> acme) @@ (leg :> umbra)
MCUserRows == {Row("viewer", acme, TRUE), Row("viewer", acme, FALSE)}
MCFounders == {{ann}, {ann, bob}}
MCFirstRow == (ann :> Row("super_admin", None, TRUE)) @@ (bob :> Row("viewer", acme, TRUE))
MCFirstGrant == (ann :> [d \in Devices |-> "none"])
                @@ (bob :> [d \in Devices |-> IF d = arm THEN "view" ELSE "none"])
MCFeeds == {<<"alerts">>, <<"dashboard">>, <<"device", arm>>, <<"device", leg>>, <<"device", NoDevice>>}
MCChannelRow == (app :> [kind |-> "in_app", org |-> acme, min |-> 1])
                @@ (hook :> [kind |-> "webhook", org |-> acme, min |-> 2])
                @@ (text :> [kind |-> "sms", org |-> acme, min |-> 3])
MCNotifySets == {{}, {app, hook, text}}

\* Two halves.  With the default channels the viewer is there from the start and
\* clients connect; with a rule that names its channels the viewer registers and
\* outside deliveries run, which share no variable with clients.
MCInit == Init /\ (notify # {} <=> accounts = {ann})
MCNext == Next /\ (notify # {} => UNCHANGED socketVars)
MCSpec == MCInit /\ [][MCNext]_vars /\ Fairness

\* The viewer belongs to another tenant than the device and its alerts.
OutsiderFounders == {{ann, bob}}
OutsiderGrant == [u \in User |-> [d \in Devices |-> "none"]]
OutsiderRow == (ann :> Row("super_admin", None, TRUE)) @@ (bob :> Row("viewer", umbra, TRUE))
=============================================================================
