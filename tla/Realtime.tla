------------------------------ MODULE Realtime ------------------------------
(***************************************************************************)
(* The WebSocket edge: JWT authentication of the handshake, the three         *)
(* consumers, and the Redis channel layer with its groups and bounded,        *)
(* expiring mailboxes.  A consumer handles one message at a time, so a        *)
(* connect that is still joining groups answers nothing, while the layer      *)
(* already queues for the groups it has joined.  Authorisation uses the User  *)
(* row as it was at the handshake.                                           *)
(***************************************************************************)
EXTENDS DeviceAccess, Sequences, Functions

CONSTANTS
    Socket,     \* channel names; every connection has a fresh one
    NoDevice,   \* a device id in a URL that no Device row has
    Feeds,      \* the URLs clients connect to
    Alerts,     \* ids of alerts, in the order they are created
    Capacity,   \* messages the layer keeps for a channel
    MaxFaults   \* bound: handlers, processes and calls that fail

\* websocket_urlpatterns
Route == {<<"dashboard">>, <<"alerts">>} \union {<<"device", d>> : d \in Devices \union {NoDevice}}

GROUP_ALERTS == <<"alerts">>
group_for_org(o) == <<"org", o>>
group_for_device(d) == <<"device", d>>
group_for_user(u) == <<"user", u>>
Group == {GROUP_ALERTS} \union {group_for_org(o) : o \in Organization}
         \union {group_for_device(d) : d \in Devices} \union {group_for_user(u) : u \in User}

\* "alert" stands for alert.raised, alert.updated and alert.resolved.
Event == [event : {"alert", "notification"}, alert : Alerts]

ASSUME LayerAssumption == Capacity \in Nat /\ Feeds \subseteq Route /\ NoDevice \notin Devices
ASSUME FaultsAssumption == MaxFaults \in Nat

VARIABLES
    sock,    \* each connection: its handler's progress and its attributes
    member,  \* member[s]: the groups the layer has channel s in
    mail,    \* mail[s]: messages the layer holds for channel s
    faults   \* failures so far (bounded)

socketVars == <<sock, member, mail>>

State == {"unused", "checking", "refused", "joining", "live", "leaving", "closed", "dead"}
Connection == [pc : State, feed : Route \union {None}, uid : User \union {None},
               row : UserRow \union {None}, todo : Seq(Group), groups_joined : Seq(Group),
               lapsed : BOOLEAN, granted : SUBSET Devices]

\* No handler object, yet or any more.
NoHandler(pc) == [pc |-> pc, feed |-> None, uid |-> None, row |-> None,
                  todo |-> <<>>, groups_joined |-> <<>>, lapsed |-> FALSE, granted |-> {}]

RealtimeInit ==
    /\ sock = [s \in Socket |-> NoHandler("unused")]
    /\ member = [s \in Socket |-> {}]
    /\ mail = [s \in Socket |-> <<>>]

-----------------------------------------------------------------------------
(* The channel layer *)

\* Faulty form: no capacity.
group_sendUnbounded(m, g, e) ==
    [s \in Socket |-> IF g \in member[s] THEN Append(m[s], e) ELSE m[s]]

\* core.realtime.broadcast: m, with e queued for every channel of group g that
\* has room; for the others it is dropped.
group_send(m, g, e) ==
    [s \in Socket |-> IF g \in member[s] /\ Len(m[s]) < Capacity THEN Append(m[s], e) ELSE m[s]]

\* A message older than expiry is dropped.
MessageExpires(s) ==
    /\ mail[s] # <<>>
    /\ mail' = [mail EXCEPT ![s] = Tail(@)]
    /\ UNCHANGED <<sock, member, faults>>

\* The layer forgets memberships older than its group_expiry, a day by default.
MembershipExpires(s) ==
    /\ member[s] # {}
    /\ member' = [member EXCEPT ![s] = {}]
    /\ sock' = [sock EXCEPT ![s].lapsed = sock[s].pc # "dead"]
    /\ UNCHANGED <<mail, faults>>

-----------------------------------------------------------------------------
(* Consumers *)

OrgGroups(row) == IF row.org = None THEN <<>> ELSE <<group_for_org(row.org)>>

\* The groups on_authenticated of each consumer joins, in its order.
DashboardGroups(row) == OrgGroups(row) \o <<GROUP_ALERTS>>
DeviceGroups(d) == <<group_for_device(d)>>
AlertGroups(u, row) == <<GROUP_ALERTS>> \o OrgGroups(row) \o <<group_for_user(u)>>

FeedGroups(f, u, row) ==
    CASE f[1] = "dashboard" -> DashboardGroups(row)
      [] f[1] = "alerts" -> AlertGroups(u, row)
      [] OTHER -> DeviceGroups(f[2])

\* JWTAuthMiddleware and connect: the account is read once, here.
Connect(s, u, f) ==
    /\ sock[s].pc = "unused"
    /\ is_authenticated(u)
    /\ LET device == f[1] = "device" IN
       sock' = [sock EXCEPT ![s] =
                 [@ EXCEPT !.pc = IF device THEN "checking" ELSE "joining",
                           !.feed = f, !.uid = u, !.row = user[u],
                           !.todo = IF device THEN <<>> ELSE FeedGroups(f, u, user[u]),
                           !.granted = {d \in Devices : grant[u][d] # "none"}]]
    /\ UNCHANGED <<member, mail, faults>>

\* No token, a bad token, no active account: close(4401) before accept.
Unauthorized(s) ==
    /\ sock[s].pc = "unused"
    /\ sock' = [sock EXCEPT ![s] = NoHandler("closed")]
    /\ UNCHANGED <<member, mail, faults>>

\* _can_view: the grants of the moment, the row of the handshake.  close(4403)
\* leads to the disconnect handler like any other close.
CheckDevice(s) ==
    /\ sock[s].pc = "checking"
    /\ LET c == sock[s]
           d == c.feed[2]
           allowed == d \in Devices /\ can_access_device(c.row, grant[c.uid], d, FALSE)
       IN sock' = [sock EXCEPT ![s] =
                    IF allowed
                    THEN [c EXCEPT !.pc = "joining", !.todo = FeedGroups(c.feed, c.uid, c.row)]
                    ELSE [c EXCEPT !.pc = "refused"]]
    /\ UNCHANGED <<member, mail, faults>>

\* Faulty form: the group is not remembered for disconnect.
JoinForgetful(s) ==
    /\ sock[s].pc = "joining"
    /\ sock[s].todo # <<>>
    /\ member' = [member EXCEPT ![s] = @ \union {Head(sock[s].todo)}]
    /\ sock' = [sock EXCEPT ![s].todo = Tail(@)]
    /\ UNCHANGED <<mail, faults>>

Join(s) ==
    /\ sock[s].pc = "joining"
    /\ sock[s].todo # <<>>
    /\ member' = [member EXCEPT ![s] = @ \union {Head(sock[s].todo)}]
    /\ LET c == sock[s] IN
       sock' = [sock EXCEPT ![s] = [c EXCEPT !.groups_joined = Append(c.groups_joined, Head(c.todo)),
                                             !.todo = Tail(c.todo)]]
    /\ UNCHANGED <<mail, faults>>

\* Faulty form: the client is greeted while groups are still to be joined.
GreetEarly(s) ==
    /\ sock[s].pc = "joining"
    /\ sock[s].groups_joined # <<>>
    /\ sock' = [sock EXCEPT ![s].pc = "live"]
    /\ UNCHANGED <<member, mail, faults>>

\* send_json "connected": the handler ends and events are dispatched.
Greet(s) ==
    /\ sock[s].pc = "joining"
    /\ sock[s].todo = <<>>
    /\ sock' = [sock EXCEPT ![s].pc = "live"]
    /\ UNCHANGED <<member, mail, faults>>

\* BaseConsumer.broadcast: the oldest message goes to the client.
Relay(s) ==
    /\ sock[s].pc = "live"
    /\ mail[s] # <<>>
    /\ mail' = [mail EXCEPT ![s] = Tail(@)]
    /\ UNCHANGED <<sock, member, faults>>

\* websocket.disconnect, after a close by either side.
Disconnect(s) ==
    /\ sock[s].pc \in {"live", "refused"}
    /\ sock' = [sock EXCEPT ![s] = [@ EXCEPT !.pc = "leaving", !.todo = sock[s].groups_joined]]
    /\ UNCHANGED <<member, mail, faults>>

Leave(s) ==
    /\ sock[s].pc = "leaving"
    /\ sock[s].todo # <<>>
    /\ member' = [member EXCEPT ![s] = @ \ {Head(sock[s].todo)}]
    /\ sock' = [sock EXCEPT ![s].todo = Tail(@)]
    /\ UNCHANGED <<mail, faults>>

\* The handler is gone, and with it the buffer of its channel.
Closed(s) ==
    /\ sock[s].pc = "leaving"
    /\ sock[s].todo = <<>>
    /\ sock' = [sock EXCEPT ![s] = NoHandler("closed")]
    /\ mail' = [mail EXCEPT ![s] = <<>>]
    /\ UNCHANGED <<member, faults>>

\* A call to Redis raises inside a handler, or the process ends: no disconnect.
SocketDies(s) ==
    /\ sock[s].pc \in {"checking", "refused", "joining", "live", "leaving"}
    /\ faults < MaxFaults
    /\ faults' = faults + 1
    /\ sock' = [sock EXCEPT ![s] = NoHandler("dead")]
    /\ UNCHANGED <<member, mail>>

\* History: each connection remembers the grants its user has had since the handshake.
RememberGrants ==
    sock' = [s \in Socket |->
              IF sock[s].uid = None THEN sock[s]
              ELSE [sock[s] EXCEPT !.granted =
                      @ \union {d \in Devices : grant'[sock[s].uid][d] # "none"}]]

Handler(s) == CheckDevice(s) \/ Join(s) \/ Greet(s) \/ Leave(s) \/ Closed(s) \/ Relay(s)

RealtimeNext ==
    \E s \in Socket :
      \/ \E u \in User, f \in Feeds : Connect(s, u, f)
      \/ Unauthorized(s) \/ Handler(s) \/ Disconnect(s)
      \/ MessageExpires(s) \/ MembershipExpires(s) \/ SocketDies(s)

-----------------------------------------------------------------------------
(* Properties *)

SocketTypeOK ==
    /\ sock \in [Socket -> Connection]
    /\ member \in [Socket -> SUBSET Group]
    /\ mail \in [Socket -> Seq(Event)]
    /\ \A s \in Socket : Len(mail[s]) <= Capacity
    /\ faults \in 0..MaxFaults

\* A connection whose disconnect handler has finished is in no group, whatever
\* it joined, lost or was refused: the layer queues nothing more for a client
\* that left.
CleanExit == \A s \in Socket : sock[s].pc = "closed" => member[s] = {}

\* A client that has been greeted receives everything its URL stands for: until
\* the layer's own expiry the connection is in exactly the groups that its
\* consumer joins for the user of the handshake.
ConnectedIsJoined ==
    \A s \in Socket :
      sock[s].pc = "live" /\ ~ sock[s].lapsed =>
        member[s] = Range(FeedGroups(sock[s].feed, sock[s].uid, sock[s].row))

\* The commands and telemetry of a device are queued only for connections whose user
\* was entitled to them: platform admins (of any tenant, as in can_access_device
\* and its test), engineers and operators of the device's organization by their
\* row at the handshake, and anybody else in it by a grant that existed at some
\* time since the handshake.  The check, the join and the requests that give and
\* take grants interleave, and what was once joined is never judged again.
\* (DeviceConsumer, can_access_device)
DeviceFeedsGranted ==
    \A s \in Socket, d \in Devices :
      sock[s].pc # "dead" /\ group_for_device(d) \in member[s] =>
        \/ is_platform_admin(sock[s].row)
        \/ /\ DeviceOrg[d] = sock[s].row.org
           /\ sock[s].row.role \in {"engineer", "operator"} \/ d \in sock[s].granted
=============================================================================
