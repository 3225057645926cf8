----------------------- MODULE NotificationCenterProofs -----------------------
(***************************************************************************)
(* Proofs about accounts, connections and notifications: the access matrix   *)
(* of can_access_device, the types, the groups connections are in, who is let *)
(* into the group of a device, that a pushed notification is stored, that     *)
(* deliveries run out of steps, and that NotificationCenter implements        *)
(* AlertSpec.                                                                 *)
(***************************************************************************)
EXTENDS NotificationCenter, TLAPS

-----------------------------------------------------------------------------
(* The access matrix *)

\* The docstring of User.can_access_device, row by row: platform admins see and
\* control everything; nobody else reaches another organization; within it
\* engineers control, operators view and need a grant to control, and any other
\* role needs a grant for either.
THEOREM AccessMatrix ==
    ASSUME NEW u \in UserRow, NEW g \in [Devices -> Grant], NEW d \in Devices
    PROVE  /\ is_platform_admin(u) =>
                can_access_device(u, g, d, FALSE) /\ can_access_device(u, g, d, TRUE)
           /\ ~ is_platform_admin(u) /\ DeviceOrg[d] # u.org =>
                ~ can_access_device(u, g, d, FALSE) /\ ~ can_access_device(u, g, d, TRUE)
           /\ DeviceOrg[d] = u.org =>
                /\ u.role = "engineer" =>
                     can_access_device(u, g, d, FALSE) /\ can_access_device(u, g, d, TRUE)
                /\ u.role = "operator" => can_access_device(u, g, d, FALSE)
                /\ u.role \in {"operator", "viewer", "device"} /\ ~ u.is_superuser =>
                     (can_access_device(u, g, d, TRUE) <=> g[d] = "control")
                /\ u.role \in {"viewer", "device"} /\ ~ u.is_superuser =>
                     (can_access_device(u, g, d, FALSE) <=> g[d] # "none")
  BY DEF can_access_device, is_platform_admin

\* Who may control a device may view it.
THEOREM ControlImpliesView ==
    ASSUME NEW u \in UserRow, NEW g \in [Devices -> Grant], NEW d \in Devices,
           can_access_device(u, g, d, TRUE)
    PROVE  can_access_device(u, g, d, FALSE)
  BY DEF can_access_device

\* The permission class already demands what the command view checks again, so
\* a command is accepted exactly in scope, with control, and if declared.
THEOREM CommandCheckedOnce ==
    ASSUME NEW u \in UserRow, NEW g \in [Devices -> Grant], NEW d \in Devices,
           NEW command, NEW declared
    PROVE  /\ HasDeviceAccess(u, g, d, "POST") <=> can_access_device(u, g, d, TRUE)
           /\ CommandAccepted(u, g, d, command, declared) <=>
                /\ InScope(u, DeviceOrg[d]) /\ can_access_device(u, g, d, TRUE)
                /\ command # None /\ (declared # {} => command \in declared)
  BY DEF HasDeviceAccess, CommandAccepted, can_access_device, SafeMethod

-----------------------------------------------------------------------------
(* Types of the accounts *)

\* Requests keep the accounts well-formed.
LEMMA AccessType == ASSUME AccessTypeOK, AccessNext PROVE AccessTypeOK'
<1>0. ASSUME CountEdit PROVE edits' \in 0..MaxEdits
  BY <1>0, EditsAssumption DEF CountEdit, AccessTypeOK
<1>1. ASSUME NEW u \in User, NEW row \in UserRows, Register(u, row) PROVE AccessTypeOK'
  BY <1>1, AccountsAssumption DEF Register, AccessTypeOK
<1>2. ASSUME NEW a \in User, NEW u \in User, NEW row \in UserRows, EditUser(a, u, row)
      PROVE  AccessTypeOK'
  BY <1>0, <1>2, AccountsAssumption DEF EditUser, AccessTypeOK
<1>3. ASSUME NEW a \in User, NEW u \in User, NEW d \in Devices, NEW g \in Grant,
             EditGrant(a, u, d, g)
      PROVE  AccessTypeOK'
  BY <1>0, <1>3 DEF EditGrant, AccessTypeOK
<1> QED BY <1>1, <1>2, <1>3 DEF AccessNext

-----------------------------------------------------------------------------
(* Groups and messages *)


\* Groups of different users differ, and from the other groups.
LEMMA UserGroups ==
    ASSUME NEW u, NEW v
    PROVE  /\ group_for_user(u) = group_for_user(v) => u = v
           /\ group_for_user(u) # GROUP_ALERTS
           /\ \A o : group_for_user(u) # group_for_org(o) /\ group_for_user(u) # group_for_device(o)
<1>1. group_for_user(u)[1] = "user" /\ group_for_user(u)[2] = u /\ group_for_user(v)[2] = v
  BY DEF group_for_user
<1>2. GROUP_ALERTS[1] = "alerts"
  BY DEF GROUP_ALERTS
<1>3. \A o : group_for_org(o)[1] = "org" /\ group_for_device(o)[1] = "device"
  BY DEF group_for_org, group_for_device
<1> QED BY <1>1, <1>2, <1>3

\* The sequence of groups of the org, if there is one.
LEMMA OrgGroupsType ==
    ASSUME NEW row \in UserRow
    PROVE  /\ OrgGroups(row) \in Seq(Group)
           /\ \A g \in Range(OrgGroups(row)) : g = group_for_org(row.org)
<1>1. CASE row.org = None
  BY <1>1 DEF OrgGroups, Range
<1>2. CASE row.org # None
  <2>1. group_for_org(row.org) \in Group
    BY <1>2 DEF UserRow, Group
  <2> QED BY <1>2, <2>1 DEF OrgGroups, Range
<1> QED BY <1>1, <1>2

\* FeedGroups is well-typed for every feed whose device exists.
LEMMA FeedGroupsType ==
    ASSUME NEW f \in Route, NEW u \in User, NEW row \in UserRow,
           f[1] = "device" => f[2] \in Devices
    PROVE  FeedGroups(f, u, row) \in Seq(Group)
<1>1. GROUP_ALERTS \in Group /\ group_for_user(u) \in Group
  BY DEF Group
<1>2. <<GROUP_ALERTS>> \in Seq(Group) /\ <<group_for_user(u)>> \in Seq(Group)
  BY <1>1
<1>3. OrgGroups(row) \in Seq(Group)
  BY OrgGroupsType
<1>4. DashboardGroups(row) \in Seq(Group) /\ AlertGroups(u, row) \in Seq(Group)
  BY <1>2, <1>3 DEF DashboardGroups, AlertGroups
<1>5. ASSUME f[1] # "dashboard", f[1] # "alerts" PROVE DeviceGroups(f[2]) \in Seq(Group)
  <2>1. f[1] = "device"
    BY <1>5 DEF Route
  <2>2. group_for_device(f[2]) \in Group
    BY <2>1 DEF Group
  <2> QED BY <2>2 DEF DeviceGroups
<1> QED BY <1>4, <1>5 DEF FeedGroups

\* Only its own user's private group is among the groups of a feed.
LEMMA PrivateGroup ==
    ASSUME NEW f, NEW u, NEW row \in UserRow, NEW v,
           group_for_user(v) \in Range(FeedGroups(f, u, row))
    PROVE  v = u
<1>1. \A g \in Range(OrgGroups(row)) : g = group_for_org(row.org)
  BY OrgGroupsType
<1>2. OrgGroups(row) \in Seq(Group) /\ <<GROUP_ALERTS>> \in Seq({GROUP_ALERTS})
  BY OrgGroupsType
<1>3. CASE f[1] = "dashboard"
  <2>1. \A g \in Range(DashboardGroups(row)) : g \in Range(OrgGroups(row)) \/ g = GROUP_ALERTS
    BY <1>2 DEF DashboardGroups, Range
  <2> QED BY <1>1, <1>3, <2>1, UserGroups DEF FeedGroups
<1>4. CASE f[1] = "alerts"
  <2>1. \A g \in Range(AlertGroups(u, row)) :
          g \in Range(OrgGroups(row)) \/ g = GROUP_ALERTS \/ g = group_for_user(u)
    BY <1>2 DEF AlertGroups, Range
  <2> QED BY <1>1, <1>4, <2>1, UserGroups DEF FeedGroups
<1>5. CASE f[1] # "dashboard" /\ f[1] # "alerts"
  <2>1. \A g \in Range(DeviceGroups(f[2])) : g = group_for_device(f[2])
    BY DEF DeviceGroups, Range
  <2> QED BY <1>5, <2>1, UserGroups DEF FeedGroups
<1> QED BY <1>3, <1>4, <1>5

Boxes(m) == m \in [Socket -> Seq(Event)] /\ \A s \in Socket : Len(m[s]) <= Capacity

\* Mailboxes stay well-typed and within capacity when a message is sent.
LEMMA SendType ==
    ASSUME NEW m, Boxes(m), NEW g, NEW e \in Event
    PROVE  Boxes(group_send(m, g, e))
<1>1. ASSUME NEW s \in Socket
      PROVE  /\ group_send(m, g, e)[s] \in Seq(Event)
             /\ Len(group_send(m, g, e)[s]) <= Capacity
  <2>1. m[s] \in Seq(Event) /\ Len(m[s]) <= Capacity /\ Len(m[s]) \in Nat
    BY DEF Boxes
  <2>2. Append(m[s], e) \in Seq(Event) /\ Len(Append(m[s], e)) = Len(m[s]) + 1
    BY <2>1
  <2> QED BY <2>1, <2>2, LayerAssumption DEF group_send
<1>2. group_send(m, g, e) \in [Socket -> Seq(Event)]
  BY <1>1 DEF group_send
<1> QED BY <1>1, <1>2 DEF Boxes

\* What a mailbox holds after a group_send it held before, or is the message,
\* and then the channel is in the group.
LEMMA SendContent ==
    ASSUME NEW m, Boxes(m), NEW g, NEW e \in Event, NEW s \in Socket,
           NEW i \in DOMAIN group_send(m, g, e)[s]
    PROVE  \/ i \in DOMAIN m[s] /\ group_send(m, g, e)[s][i] = m[s][i]
           \/ g \in member[s] /\ group_send(m, g, e)[s][i] = e
<1>1. m[s] \in Seq(Event)
  BY DEF Boxes
<1>2. CASE g \in member[s] /\ Len(m[s]) < Capacity
  BY <1>1, <1>2 DEF group_send
<1>3. CASE ~ (g \in member[s] /\ Len(m[s]) < Capacity)
  BY <1>1, <1>3 DEF group_send
<1> QED BY <1>2, <1>3
-----------------------------------------------------------------------------
(* Connections *)

\* How far the handler of connection s is, and what the layer holds for it.
Blank(s) == sock[s].uid = None /\ sock[s].groups_joined = <<>> /\ sock[s].todo = <<>>
Served(s) ==
    /\ sock[s].uid \in User /\ sock[s].row \in UserRow /\ sock[s].feed \in Route
    /\ sock[s].pc \in {"joining", "live"} /\ sock[s].feed[1] = "device"
         => sock[s].feed[2] \in Devices
Promised(s) == Range(FeedGroups(sock[s].feed, sock[s].uid, sock[s].row))

UnusedOK(s) == sock[s].pc = "unused" => Blank(s) /\ member[s] = {} /\ mail[s] = <<>>
GoneOK(s) == /\ sock[s].pc = "closed" => Blank(s) /\ member[s] = {}
             /\ sock[s].pc = "dead" => Blank(s)
WaitingOK(s) == sock[s].pc \in {"checking", "refused"} =>
    /\ Served(s) /\ sock[s].feed[1] = "device"
    /\ sock[s].groups_joined = <<>> /\ sock[s].todo = <<>> /\ member[s] = {}
JoinedOK(s) == sock[s].pc \in {"joining", "live"} =>
    /\ Served(s)
    /\ Range(sock[s].groups_joined) \union Range(sock[s].todo) = Promised(s)
    /\ sock[s].pc = "live" => sock[s].todo = <<>>
    /\ member[s] \subseteq Range(sock[s].groups_joined)
    /\ ~ sock[s].lapsed => member[s] = Range(sock[s].groups_joined)
LeavingOK(s) == sock[s].pc = "leaving" =>
    /\ Served(s)
    /\ Range(sock[s].todo) \subseteq Promised(s)
    /\ member[s] \subseteq Range(sock[s].todo)

SockOK(s) == UnusedOK(s) /\ GoneOK(s) /\ WaitingOK(s) /\ JoinedOK(s) /\ LeavingOK(s)

\* Every pushed notification is stored, and so is every one still to be pushed.
EmitOK(e) ==
    /\ e.pc # "idle" => e.alert \in Alerts
    /\ e.pc = "push" => \A u \in e.recipients : e.alert \in inbox[u]

StoreOK == (\A w \in Worker : EmitOK(work[w])) /\ PushedIsStored

IInv == TypeOK /\ (\A s \in Socket : SockOK(s)) /\ StoreOK

\* The elements of a sequence when one is added at its end, or taken off its head.
LEMMA RangeSteps ==
    ASSUME NEW S, NEW q \in Seq(S), NEW r \in Seq(S), r # <<>>
    PROVE  /\ Range(Append(q, Head(r))) = Range(q) \union {Head(r)}
           /\ Range(r) = {Head(r)} \union Range(Tail(r))
           /\ Head(r) \in S /\ Tail(r) \in Seq(S) /\ Append(q, Head(r)) \in Seq(S)
<1>1. Head(r) \in S /\ Tail(r) \in Seq(S) /\ Append(q, Head(r)) \in Seq(S) /\ Len(r) > 0
  OBVIOUS
<1>2. Range(Append(q, Head(r))) = Range(q) \union {Head(r)}
  <2>1. \A x \in Range(Append(q, Head(r))) : x \in Range(q) \/ x = Head(r)
    BY <1>1 DEF Range
  <2>2. \A i \in DOMAIN q : i \in DOMAIN Append(q, Head(r)) /\ Append(q, Head(r))[i] = q[i]
    BY <1>1
  <2>3. Len(q) + 1 \in DOMAIN Append(q, Head(r)) /\ Append(q, Head(r))[Len(q) + 1] = Head(r)
    BY <1>1
  <2> QED BY <2>1, <2>2, <2>3 DEF Range
<1>3. Range(r) = {Head(r)} \union Range(Tail(r))
  <2>1. \A i \in DOMAIN r : i = 1 \/ (i - 1 \in DOMAIN Tail(r) /\ Tail(r)[i - 1] = r[i])
    BY <1>1
  <2>2. \A i \in DOMAIN Tail(r) : i + 1 \in DOMAIN r /\ Tail(r)[i] = r[i + 1]
    BY <1>1
  <2>3. 1 \in DOMAIN r /\ r[1] = Head(r)
    BY <1>1
  <2>4. ASSUME NEW i \in DOMAIN r PROVE r[i] = Head(r) \/ r[i] \in Range(Tail(r))
    <3>1. CASE i = 1
      BY <2>3, <3>1
    <3>2. CASE i - 1 \in DOMAIN Tail(r) /\ Tail(r)[i - 1] = r[i]
      BY <3>2 DEF Range
    <3> QED BY <2>1, <3>1, <3>2
  <2>5. \A x \in Range(Tail(r)) : x \in Range(r)
    BY <2>2 DEF Range
  <2>6. Head(r) \in Range(r)
    BY <2>3 DEF Range
  <2>7. \A x \in Range(r) : x = Head(r) \/ x \in Range(Tail(r))
    BY <2>4 DEF Range
  <2> QED BY <2>5, <2>6, <2>7
<1> QED BY <1>1, <1>2, <1>3

\* Moving the first group of r to the end of q.
LEMMA GroupsMoveOn ==
    \A q, r \in Seq(Group) : r # <<>> =>
      /\ Range(Append(q, Head(r))) = Range(q) \union {Head(r)}
      /\ Range(r) = {Head(r)} \union Range(Tail(r)) /\ Head(r) \in Group
      /\ Tail(r) \in Seq(Group) /\ Append(q, Head(r)) \in Seq(Group)
<1> TAKE q, r \in Seq(Group)
<1> HAVE r # <<>>
<1> DEFINE G == Group
<1>1. q \in Seq(G) /\ r \in Seq(G)
  OBVIOUS
<1> HIDE DEF G
<1>2. /\ Range(Append(q, Head(r))) = Range(q) \union {Head(r)}
      /\ Range(r) = {Head(r)} \union Range(Tail(r)) /\ Head(r) \in G
      /\ Tail(r) \in Seq(G) /\ Append(q, Head(r)) \in Seq(G)
  BY <1>1, RangeSteps
<1> QED BY <1>2 DEF G

\* The private group of a user has only connections of that user.
LEMMA PrivateMember ==
    ASSUME IInv, NEW s \in Socket, NEW u \in User, group_for_user(u) \in member[s],
           sock[s].uid # None
    PROVE  sock[s].uid = u
<1>1. SockOK(s) /\ sock[s].pc \in State
  BY DEF IInv, TypeOK, SocketTypeOK, Connection
<1>2. sock[s].pc \in {"joining", "live", "leaving"}
  BY <1>1 DEF SockOK, UnusedOK, GoneOK, WaitingOK, Blank, State
<1>3. group_for_user(u) \in Promised(s) /\ Served(s)
  BY <1>1, <1>2 DEF SockOK, JoinedOK, LeavingOK
<1> QED BY <1>3, PrivateGroup DEF Promised, Served

\* A step of one connection leaves the others alone, and keeps its own in shape.
LEMMA SocketStep ==
    ASSUME IInv, NEW s \in Socket,
           NEW c \in Connection, NEW g \in SUBSET Group, NEW b \in Seq(Event), Len(b) <= Capacity,
           sock' = [sock EXCEPT ![s] = c], member' = [member EXCEPT ![s] = g],
           mail' = [mail EXCEPT ![s] = b], faults' \in 0..MaxFaults, SockOK(s)',
           \A i \in DOMAIN b : c.uid # None /\ b[i].event = "notification"
                                 => b[i].alert \in inbox[c.uid],
           UNCHANGED <<accessVars, centerVars>>
    PROVE  IInv'
<1>1. SocketTypeOK'
  BY DEF IInv, TypeOK, SocketTypeOK
<1>2. AccessTypeOK' /\ CenterTypeOK'
  BY DEF IInv, TypeOK, AccessTypeOK, CenterTypeOK, accessVars, centerVars
<1>3. ASSUME NEW t \in Socket PROVE SockOK(t)'
  <2>1. CASE t = s
    BY <2>1
  <2>2. CASE t # s
    <3>1. sock'[t] = sock[t] /\ member'[t] = member[t] /\ mail'[t] = mail[t] /\ SockOK(t)
      BY <2>2 DEF IInv, TypeOK, SocketTypeOK
    <3> QED BY <3>1 DEF SockOK, UnusedOK, GoneOK, WaitingOK, JoinedOK, LeavingOK, Blank, Served,
                        Promised
  <2> QED BY <2>1, <2>2
<1>4. PushedIsStored'
  <2> SUFFICES ASSUME NEW t \in Socket, NEW i \in DOMAIN mail'[t],
                      sock'[t].uid # None, mail'[t][i].event = "notification"
               PROVE  mail'[t][i].alert \in inbox[sock'[t].uid]
    BY DEF PushedIsStored, centerVars
  <2>1. CASE t = s
    BY <2>1 DEF IInv, TypeOK, SocketTypeOK
  <2>2. CASE t # s
    BY <2>2 DEF IInv, TypeOK, SocketTypeOK, StoreOK, PushedIsStored
  <2> QED BY <2>1, <2>2
<1>5. StoreOK'
  BY <1>4 DEF IInv, StoreOK, EmitOK, centerVars
<1> QED BY <1>1, <1>2, <1>3, <1>5 DEF IInv, TypeOK
\* Taking the oldest message out of a mailbox.
LEMMA TailMail ==
    ASSUME NEW b \in Seq(Event), b # <<>>, Len(b) <= Capacity
    PROVE  /\ Tail(b) \in Seq(Event) /\ Len(Tail(b)) <= Capacity
           /\ \A i \in DOMAIN Tail(b) : i + 1 \in DOMAIN b /\ Tail(b)[i] = b[i + 1]
  BY LayerAssumption

\* Every handler, client and layer step keeps the invariant.
LEMMA RealtimeInv ==
    ASSUME IInv, NEW s \in Socket, UNCHANGED <<accessVars, centerVars>>,
           \/ \E u \in User, f \in Feeds : Connect(s, u, f)
           \/ Unauthorized(s) \/ Handler(s) \/ Disconnect(s)
           \/ MessageExpires(s) \/ MembershipExpires(s) \/ SocketDies(s)
    PROVE  IInv'
<1> DEFINE c == sock[s]
<1>1. /\ c \in Connection /\ member[s] \in SUBSET Group /\ mail[s] \in Seq(Event)
      /\ Len(mail[s]) <= Capacity /\ SockOK(s) /\ faults \in 0..MaxFaults
      /\ \A i \in DOMAIN mail[s] : c.uid # None /\ mail[s][i].event = "notification"
                                     => mail[s][i].alert \in inbox[c.uid]
  BY DEF IInv, TypeOK, SocketTypeOK, StoreOK, PushedIsStored
<1>2. /\ sock = [sock EXCEPT ![s] = sock[s]] /\ member = [member EXCEPT ![s] = member[s]]
      /\ mail = [mail EXCEPT ![s] = mail[s]]
  BY DEF IInv, TypeOK, SocketTypeOK
<1>3. ASSUME NEW d \in Connection, NEW g \in SUBSET Group, NEW b \in Seq(Event),
             sock' = [sock EXCEPT ![s] = d], member' = [member EXCEPT ![s] = g],
             mail' = [mail EXCEPT ![s] = b]
      PROVE  sock'[s] = d /\ member'[s] = g /\ mail'[s] = b
  BY <1>3 DEF IInv, TypeOK, SocketTypeOK
<1>4. /\ Range(<<>>) = {} /\ <<>> \in Seq(Group) /\ <<>> \in Seq(Event) /\ {} \in SUBSET Group
      /\ Len(<<>>) <= Capacity
  BY LayerAssumption DEF Range
<1>5. /\ c.todo \in Seq(Group) /\ c.groups_joined \in Seq(Group) /\ c.pc \in State
      /\ c.lapsed \in BOOLEAN /\ c.granted \in SUBSET Devices /\ c.feed \in Route \union {None}
      /\ c.uid \in User \union {None} /\ c.row \in UserRow \union {None}
  BY <1>1 DEF Connection
<1>6. \A pc \in State : NoHandler(pc) \in Connection
  BY <1>4 DEF NoHandler, Connection
<1>7. ASSUME NEW u \in User, NEW f \in Feeds, Connect(s, u, f) PROVE IInv'
  <2>1. u \in User /\ user[u] \in UserRow /\ f \in Route
    BY <1>7, LayerAssumption DEF IInv, TypeOK, AccessTypeOK, Connect
  <2> DEFINE d == [c EXCEPT !.pc = IF f[1] = "device" THEN "checking" ELSE "joining",
                            !.feed = f, !.uid = u, !.row = user[u],
                            !.todo = IF f[1] = "device" THEN <<>> ELSE FeedGroups(f, u, user[u]),
                            !.granted = {x \in Devices : grant[u][x] # "none"}]
  <2>2. c.pc = "unused" /\ Blank(s) /\ member[s] = {} /\ mail[s] = <<>>
    BY <1>1, <1>7 DEF Connect, SockOK, UnusedOK
  <2>3. d \in Connection
    <3>1. f[1] # "device" => FeedGroups(f, u, user[u]) \in Seq(Group)
      BY <2>1, FeedGroupsType
    <3>2. (IF f[1] = "device" THEN <<>> ELSE FeedGroups(f, u, user[u])) \in Seq(Group)
      BY <1>4, <3>1
    <3>3. (IF f[1] = "device" THEN "checking" ELSE "joining") \in State
      BY DEF State
    <3>4. {x \in Devices : grant[u][x] # "none"} \in SUBSET Devices
      OBVIOUS
    <3> QED BY <1>1, <2>1, <3>2, <3>3, <3>4 DEF Connection
  <2>4. /\ sock' = [sock EXCEPT ![s] = d] /\ member' = [member EXCEPT ![s] = member[s]]
        /\ mail' = [mail EXCEPT ![s] = mail[s]] /\ faults' = faults
    BY <1>2, <1>7 DEF Connect
  <2>5. sock'[s] = d /\ member'[s] = {} /\ mail'[s] = <<>>
    BY <1>1, <1>3, <2>2, <2>3, <2>4
  <2>6. /\ d.pc = (IF f[1] = "device" THEN "checking" ELSE "joining") /\ d.uid = u /\ d.feed = f
        /\ d.row = user[u] /\ d.groups_joined = <<>>
        /\ d.todo = (IF f[1] = "device" THEN <<>> ELSE FeedGroups(f, u, user[u]))
    BY <1>1, <2>2 DEF Blank, Connection
  <2> HIDE DEF d
  <2>7. SockOK(s)'
    BY <1>4, <2>1, <2>5, <2>6 DEF SockOK, UnusedOK, GoneOK, WaitingOK, JoinedOK, LeavingOK, Served,
                                  Promised
  <2>8. \A i \in DOMAIN mail[s] : FALSE
    BY <2>2
  <2> QED BY <1>1, <2>3, <2>4, <2>7, <2>8, SocketStep
<1>8. ASSUME NEW pc \in {"closed", "dead"}, NEW b \in {mail[s], <<>>},
             pc = "closed" => member[s] = {},
             sock' = [sock EXCEPT ![s] = NoHandler(pc)],
             member' = member, mail' = [mail EXCEPT ![s] = b], faults' \in 0..MaxFaults
      PROVE  IInv'
  <2>1. NoHandler(pc) \in Connection /\ NoHandler(pc).uid = None
    BY <1>6 DEF State, NoHandler
  <2>5. b \in Seq(Event) /\ Len(b) <= Capacity
    BY <1>1, <1>4
  <2>2. member' = [member EXCEPT ![s] = member[s]]
    BY <1>2, <1>8
  <2>3. sock'[s] = NoHandler(pc) /\ member'[s] = member[s]
    BY <1>1, <1>3, <1>8, <2>1, <2>2, <2>5
  <2>4. SockOK(s)'
    BY <1>8, <2>3 DEF NoHandler, SockOK, UnusedOK, GoneOK, WaitingOK, JoinedOK, LeavingOK, Blank
  <2> QED BY <1>1, <1>8, <2>1, <2>2, <2>4, <2>5, SocketStep
<1>9. ASSUME Unauthorized(s) PROVE IInv'
  BY <1>1, <1>2, <1>8, <1>9 DEF Unauthorized, SockOK, UnusedOK
<1>10. ASSUME SocketDies(s) PROVE IInv'
  BY <1>1, <1>2, <1>8, <1>10, FaultsAssumption DEF SocketDies
<1>11. ASSUME Closed(s) PROVE IInv'
  <2>1. member[s] = {}
    BY <1>1, <1>4, <1>11 DEF Closed, SockOK, LeavingOK
  <2> QED BY <1>1, <1>8, <1>11, <2>1 DEF Closed
<1>12. ASSUME NEW d \in Connection, sock' = [sock EXCEPT ![s] = d], d.uid = c.uid,
              UNCHANGED <<mail, faults>>, NEW g \in SUBSET Group,
              member' = [member EXCEPT ![s] = g], SockOK(s)'
       PROVE  IInv'
  BY <1>1, <1>2, <1>12, SocketStep
<1>13. ASSUME CheckDevice(s) PROVE IInv'
  <2>1. /\ c.pc = "checking" /\ Served(s) /\ c.feed[1] = "device" /\ member[s] = {}
        /\ c.groups_joined = <<>> /\ c.todo = <<>>
    BY <1>1, <1>13 DEF CheckDevice, SockOK, WaitingOK
  <2>2. c.uid \in User /\ c.row \in UserRow /\ c.feed \in Route
    BY <2>1 DEF Served
  <2> DEFINE q == FeedGroups(c.feed, c.uid, c.row)
             j == [c EXCEPT !.pc = "joining", !.todo = q]
             r == [c EXCEPT !.pc = "refused"]
  <2>3. CASE sock' = [sock EXCEPT ![s] = j] /\ c.feed[2] \in Devices
    <3>1. q \in Seq(Group)
      BY <2>2, <2>3, FeedGroupsType
    <3>2. j \in Connection
      BY <1>1, <3>1 DEF Connection, State
    <3>3. member' = [member EXCEPT ![s] = {}] /\ mail' = mail /\ faults' = faults
      BY <1>2, <1>13, <2>1 DEF CheckDevice
    <3>4. sock'[s] = j /\ member'[s] = {}
      BY <1>1, <1>2, <1>3, <2>3, <3>2, <3>3
    <3>5. /\ j.pc = "joining" /\ j.uid = c.uid /\ j.row = c.row /\ j.feed = c.feed /\ j.todo = q
          /\ j.groups_joined = <<>>
      BY <1>1, <2>1 DEF Connection
    <3> HIDE DEF j, q
    <3>6. SockOK(s)'
      BY <1>4, <2>2, <2>3, <3>4, <3>5 DEF SockOK, UnusedOK, GoneOK, WaitingOK, JoinedOK, LeavingOK,
                                          Served, Promised, q
    <3> QED BY <1>4, <1>12, <2>3, <3>2, <3>3, <3>5, <3>6
  <2>4. CASE sock' = [sock EXCEPT ![s] = r]
    <3>1. r \in Connection
      BY <1>1 DEF Connection, State
    <3>2. member' = [member EXCEPT ![s] = {}] /\ mail' = mail /\ faults' = faults
      BY <1>2, <1>13, <2>1 DEF CheckDevice
    <3>3. sock'[s] = r /\ member'[s] = {}
      BY <1>1, <1>2, <1>3, <2>4, <3>1, <3>2
    <3>4. /\ r.pc = "refused" /\ r.uid = c.uid /\ r.row = c.row /\ r.feed = c.feed
          /\ r.todo = <<>> /\ r.groups_joined = <<>>
      BY <1>1, <2>1 DEF Connection
    <3> HIDE DEF r
    <3>5. SockOK(s)'
      BY <2>1, <2>2, <3>3, <3>4 DEF SockOK, UnusedOK, GoneOK, WaitingOK, JoinedOK, LeavingOK, Served
    <3> QED BY <1>4, <1>12, <2>4, <3>1, <3>2, <3>4, <3>5
  <2> QED BY <1>13, <2>3, <2>4 DEF CheckDevice
<1>14. ASSUME Join(s) PROVE IInv'
  <2> DEFINE h == Head(c.todo)
             d == [c EXCEPT !.groups_joined = Append(c.groups_joined, h), !.todo = Tail(c.todo)]
             g == member[s] \union {h}
  <2>1. c.pc = "joining" /\ c.todo # <<>> /\ Served(s)
    BY <1>1, <1>14 DEF Join, SockOK, JoinedOK
  <2>2. /\ Range(Append(c.groups_joined, h)) = Range(c.groups_joined) \union {h}
        /\ Range(c.todo) = {h} \union Range(Tail(c.todo)) /\ h \in Group
        /\ Tail(c.todo) \in Seq(Group) /\ Append(c.groups_joined, h) \in Seq(Group)
    <3>1. c.groups_joined \in Seq(Group) /\ c.todo \in Seq(Group) /\ c.todo # <<>>
      BY <1>5, <2>1
    <3> QED BY <3>1, GroupsMoveOn
  <2>3. d \in Connection /\ g \in SUBSET Group
    BY <1>1, <2>2 DEF Connection
  <2>4. /\ sock' = [sock EXCEPT ![s] = d] /\ member' = [member EXCEPT ![s] = g]
        /\ mail' = mail /\ faults' = faults
    BY <1>14 DEF Join
  <2>5. sock'[s] = d /\ member'[s] = g
    BY <1>1, <1>2, <1>3, <2>3, <2>4
  <2>6. /\ d.pc = "joining" /\ d.uid = c.uid /\ d.row = c.row /\ d.feed = c.feed
        /\ d.lapsed = c.lapsed /\ d.todo = Tail(c.todo)
        /\ d.groups_joined = Append(c.groups_joined, h)
    BY <1>1, <2>1 DEF Connection
  <2>7. /\ Range(c.groups_joined) \union Range(c.todo) = Promised(s)
        /\ member[s] \subseteq Range(c.groups_joined)
        /\ ~ c.lapsed => member[s] = Range(c.groups_joined)
    BY <1>1, <2>1 DEF SockOK, JoinedOK
  <2>8. Promised(s)' = Promised(s) /\ Served(s)'
    BY <2>1, <2>5, <2>6 DEF Promised, Served
  <2> HIDE DEF d, h
  <2>9. SockOK(s)'
    BY <2>2, <2>5, <2>6, <2>7, <2>8 DEF SockOK, UnusedOK, GoneOK, WaitingOK, JoinedOK, LeavingOK
  <2> QED BY <1>12, <2>3, <2>4, <2>6, <2>9
<1>15. ASSUME Greet(s) PROVE IInv'
  <2> DEFINE d == [c EXCEPT !.pc = "live"]
  <2>1. c.pc = "joining" /\ c.todo = <<>> /\ JoinedOK(s)
    BY <1>1, <1>15 DEF Greet, SockOK
  <2>2. d \in Connection
    BY <1>1 DEF Connection, State
  <2>3. /\ sock' = [sock EXCEPT ![s] = d] /\ member' = [member EXCEPT ![s] = member[s]]
        /\ mail' = mail /\ faults' = faults
    BY <1>2, <1>15 DEF Greet
  <2>4. sock'[s] = d /\ member'[s] = member[s]
    BY <1>1, <1>2, <1>3, <2>2, <2>3
  <2>5. /\ d.pc = "live" /\ d.uid = c.uid /\ d.row = c.row /\ d.feed = c.feed
        /\ d.lapsed = c.lapsed /\ d.todo = c.todo /\ d.groups_joined = c.groups_joined
    BY <1>1 DEF Connection
  <2> HIDE DEF d
  <2>6. SockOK(s)'
    BY <2>1, <2>4, <2>5 DEF SockOK, UnusedOK, GoneOK, WaitingOK, JoinedOK, LeavingOK, Served,
                            Promised
  <2> QED BY <1>1, <1>12, <2>2, <2>3, <2>5, <2>6
<1>16. ASSUME Disconnect(s) PROVE IInv'
  <2> DEFINE d == [c EXCEPT !.pc = "leaving", !.todo = c.groups_joined]
  <2>1. c.pc \in {"live", "refused"} /\ JoinedOK(s) /\ WaitingOK(s)
    BY <1>1, <1>16 DEF Disconnect, SockOK
  <2>2. d \in Connection
    BY <1>1, <1>5 DEF Connection, State
  <2>3. /\ sock' = [sock EXCEPT ![s] = d] /\ member' = [member EXCEPT ![s] = member[s]]
        /\ mail' = mail /\ faults' = faults
    BY <1>2, <1>16 DEF Disconnect
  <2>4. sock'[s] = d /\ member'[s] = member[s]
    BY <1>1, <1>2, <1>3, <2>2, <2>3
  <2>5. /\ d.pc = "leaving" /\ d.uid = c.uid /\ d.row = c.row /\ d.feed = c.feed
        /\ d.todo = c.groups_joined
    BY <1>1 DEF Connection
  <2> HIDE DEF d
  <2>6. SockOK(s)'
    BY <1>4, <2>1, <2>4, <2>5 DEF SockOK, UnusedOK, GoneOK, WaitingOK, JoinedOK, LeavingOK, Served,
                                  Promised
  <2> QED BY <1>1, <1>12, <2>2, <2>3, <2>5, <2>6
<1>17. ASSUME Leave(s) PROVE IInv'
  <2> DEFINE h == Head(c.todo)
             d == [c EXCEPT !.todo = Tail(@)]
             g == member[s] \ {h}
  <2>1. c.pc = "leaving" /\ c.todo # <<>> /\ LeavingOK(s)
    BY <1>1, <1>17 DEF Leave, SockOK
  <2>2. /\ Range(c.todo) = {h} \union Range(Tail(c.todo))
        /\ Tail(c.todo) \in Seq(Group)
    BY <1>5, <2>1, RangeSteps
  <2>3. d \in Connection /\ g \in SUBSET Group
    BY <1>1, <2>2 DEF Connection
  <2>4. /\ sock' = [sock EXCEPT ![s] = d] /\ member' = [member EXCEPT ![s] = g]
        /\ mail' = mail /\ faults' = faults
    BY <1>17 DEF Leave
  <2>5. sock'[s] = d /\ member'[s] = g
    BY <1>1, <1>2, <1>3, <2>3, <2>4
  <2>6. /\ d.pc = "leaving" /\ d.uid = c.uid /\ d.row = c.row /\ d.feed = c.feed
        /\ d.todo = Tail(c.todo)
    BY <1>1, <2>1 DEF Connection
  <2> HIDE DEF d, h
  <2>7. SockOK(s)'
    BY <2>1, <2>2, <2>5, <2>6 DEF SockOK, UnusedOK, GoneOK, WaitingOK, JoinedOK, LeavingOK, Served,
                                  Promised
  <2> QED BY <1>12, <2>3, <2>4, <2>6, <2>7
<1>18. ASSUME mail[s] # <<>>, mail' = [mail EXCEPT ![s] = Tail(@)],
              UNCHANGED <<sock, member, faults>>
       PROVE  IInv'
  <2>1. /\ Tail(mail[s]) \in Seq(Event) /\ Len(Tail(mail[s])) <= Capacity
        /\ \A i \in DOMAIN Tail(mail[s]) : i + 1 \in DOMAIN mail[s]
                                           /\ Tail(mail[s])[i] = mail[s][i + 1]
    BY <1>1, <1>18, TailMail
  <2>2. /\ sock' = [sock EXCEPT ![s] = c] /\ member' = [member EXCEPT ![s] = member[s]]
        /\ mail' = [mail EXCEPT ![s] = Tail(mail[s])] /\ faults' \in 0..MaxFaults
    BY <1>1, <1>2, <1>18
  <2>3. c.pc # "unused"
    BY <1>1, <1>18 DEF SockOK, UnusedOK
  <2>4. SockOK(s)'
    BY <1>1, <1>18, <2>3 DEF SockOK, UnusedOK, GoneOK, WaitingOK, JoinedOK, LeavingOK, Served,
                             Promised, Blank
  <2>5. \A i \in DOMAIN Tail(mail[s]) :
          c.uid # None /\ Tail(mail[s])[i].event = "notification"
            => Tail(mail[s])[i].alert \in inbox[c.uid]
    BY <1>1, <2>1
  <2> HIDE DEF c
  <2> QED BY <1>1, <2>1, <2>2, <2>4, <2>5, SocketStep
<1>19. ASSUME MembershipExpires(s) PROVE IInv'
  <2> DEFINE d == [c EXCEPT !.lapsed = c.pc # "dead"]
  <2>1. d \in Connection
    BY <1>1 DEF Connection
  <2>2. /\ sock' = [sock EXCEPT ![s] = d] /\ member' = [member EXCEPT ![s] = {}]
        /\ mail' = mail /\ faults' = faults
    BY <1>19 DEF MembershipExpires
  <2>3. sock'[s] = d /\ member'[s] = {}
    BY <1>1, <1>2, <1>3, <2>1, <2>2
  <2>4. /\ d.pc = c.pc /\ d.uid = c.uid /\ d.row = c.row /\ d.feed = c.feed
        /\ d.todo = c.todo /\ d.groups_joined = c.groups_joined /\ d.lapsed = (c.pc # "dead")
    BY <1>1 DEF Connection
  <2> HIDE DEF d
  <2>5. SockOK(s)'
    <3>1. Blank(s)' = Blank(s) /\ Served(s)' = Served(s) /\ Promised(s)' = Promised(s)
      BY <2>3, <2>4 DEF Blank, Served, Promised
    <3>2. UnusedOK(s)' /\ GoneOK(s)' /\ WaitingOK(s)'
      BY <1>1, <2>2, <2>3, <2>4, <3>1 DEF SockOK, UnusedOK, GoneOK, WaitingOK
    <3>3. JoinedOK(s)'
      BY <1>1, <2>3, <2>4, <3>1 DEF SockOK, JoinedOK
    <3>4. LeavingOK(s)'
      BY <1>1, <2>3, <2>4, <3>1 DEF SockOK, LeavingOK
    <3> QED BY <3>2, <3>3, <3>4 DEF SockOK
  <2> QED BY <1>4, <1>12, <2>1, <2>2, <2>4, <2>5
<1>20. Relay(s) \/ MessageExpires(s) => IInv'
  BY <1>18 DEF Relay, MessageExpires
<1> QED BY <1>7, <1>9, <1>10, <1>11, <1>13, <1>14, <1>15, <1>16, <1>17, <1>19, <1>20 DEF Handler
-----------------------------------------------------------------------------
(* Accounts, emissions, deliveries and people *)

\* Steps that change no connection keep what is known of connections, if they
\* leave the mailboxes of unused channels alone.
LEMMA BoxStep ==
    ASSUME IInv, UNCHANGED <<sock, member, faults>>, Boxes(mail'),
           \A s \in Socket : sock[s].pc = "unused" => mail'[s] = mail[s]
    PROVE  SocketTypeOK' /\ \A s \in Socket : SockOK(s)'
<1>1. SocketTypeOK'
  BY DEF IInv, TypeOK, SocketTypeOK, Boxes
<1>2. ASSUME NEW s \in Socket PROVE SockOK(s)'
  BY <1>2 DEF IInv, SockOK, UnusedOK, GoneOK, WaitingOK, JoinedOK, LeavingOK, Served, Promised, Blank
<1> QED BY <1>1, <1>2

\* A request that changes grants changes nothing in a connection but its history.
LEMMA Remembered ==
    ASSUME IInv, RememberGrants
    PROVE  \A s \in Socket :
             /\ sock'[s].pc = sock[s].pc /\ sock'[s].feed = sock[s].feed /\ sock'[s].uid = sock[s].uid
             /\ sock'[s].row = sock[s].row /\ sock'[s].todo = sock[s].todo
             /\ sock'[s].groups_joined = sock[s].groups_joined /\ sock'[s].lapsed = sock[s].lapsed
             /\ sock'[s] \in Connection /\ sock[s].granted \subseteq sock'[s].granted
             /\ sock[s].uid # None =>
                  {d \in Devices : grant'[sock[s].uid][d] # "none"} \subseteq sock'[s].granted
<1> TAKE s \in Socket
<1> DEFINE c == sock[s]
           new == {d \in Devices : grant'[c.uid][d] # "none"}
<1>1. c \in Connection /\ new \subseteq Devices
  BY DEF IInv, TypeOK, SocketTypeOK
<1>2. sock'[s] = IF c.uid = None THEN c ELSE [c EXCEPT !.granted = c.granted \union new]
  BY DEF RememberGrants
<1> HIDE DEF c, new
<1>3. \/ c.uid = None /\ sock'[s] = c
      \/ sock'[s] = [c EXCEPT !.granted = c.granted \union new]
  BY <1>2
<1>4. /\ sock'[s].pc = c.pc /\ sock'[s].feed = c.feed /\ sock'[s].uid = c.uid
      /\ sock'[s].row = c.row /\ sock'[s].todo = c.todo
      /\ sock'[s].groups_joined = c.groups_joined /\ sock'[s].lapsed = c.lapsed
      /\ sock'[s] \in Connection /\ c.granted \subseteq sock'[s].granted
      /\ c.uid # None => new \subseteq sock'[s].granted
  BY <1>1, <1>3 DEF Connection
<1> QED BY <1>4 DEF c, new

LEMMA RememberStep ==
    ASSUME IInv, RememberGrants, UNCHANGED <<member, mail, faults, inbox>>
    PROVE  SocketTypeOK' /\ (\A s \in Socket : SockOK(s)') /\ PushedIsStored'
<1>1. SocketTypeOK'
  <2>1. sock' \in [Socket -> Connection]
    BY Remembered DEF RememberGrants
  <2> QED BY <2>1 DEF IInv, TypeOK, SocketTypeOK
<1>2. ASSUME NEW s \in Socket PROVE SockOK(s)'
  <2>1. Blank(s)' = Blank(s) /\ Served(s)' = Served(s) /\ Promised(s)' = Promised(s)
    BY Remembered DEF Blank, Served, Promised
  <2>2. SockOK(s) /\ sock'[s].pc = sock[s].pc /\ sock'[s].todo = sock[s].todo
        /\ sock'[s].groups_joined = sock[s].groups_joined /\ sock'[s].lapsed = sock[s].lapsed
        /\ sock'[s].feed = sock[s].feed
    BY Remembered DEF IInv
  <2> QED BY <2>1, <2>2 DEF SockOK, UnusedOK, GoneOK, WaitingOK, JoinedOK, LeavingOK
<1>3. PushedIsStored'
  BY Remembered DEF IInv, StoreOK, PushedIsStored
<1> QED BY <1>1, <1>2, <1>3

\* Faults are counted apart from what is known of connections.
LEMMA FaultStep ==
    ASSUME IInv, UNCHANGED socketVars, faults' \in 0..MaxFaults
    PROVE  SocketTypeOK' /\ \A s \in Socket : SockOK(s)'
<1>1. SocketTypeOK'
  BY DEF IInv, TypeOK, SocketTypeOK, socketVars
<1>2. ASSUME NEW s \in Socket PROVE SockOK(s)'
  BY <1>2 DEF IInv, SockOK, UnusedOK, GoneOK, WaitingOK, JoinedOK, LeavingOK, Served, Promised, Blank,
              socketVars
<1> QED BY <1>1, <1>2

\* Rows stay, and a message is an old one, no notification, or stored.
LEMMA StoredStep ==
    ASSUME IInv, UNCHANGED sock, \A u \in User : inbox[u] \subseteq inbox'[u],
           \A s \in Socket : \A i \in DOMAIN mail'[s] :
             \/ i \in DOMAIN mail[s] /\ mail'[s][i] = mail[s][i]
             \/ mail'[s][i].event # "notification"
             \/ sock[s].uid # None => mail'[s][i].alert \in inbox'[sock[s].uid]
    PROVE  PushedIsStored'
<1> SUFFICES ASSUME NEW s \in Socket, NEW i \in DOMAIN mail'[s], sock[s].uid # None,
                    mail'[s][i].event = "notification"
             PROVE  mail'[s][i].alert \in inbox'[sock[s].uid]
  BY DEF PushedIsStored
<1>1. sock[s].uid \in User
  BY DEF IInv, TypeOK, SocketTypeOK, Connection
<1>2. CASE i \in DOMAIN mail[s] /\ mail'[s][i] = mail[s][i]
  BY <1>1, <1>2 DEF IInv, StoreOK, PushedIsStored
<1> QED BY <1>2

\* A group_send grows mailboxes of members only, hence of no unused channel.
LEMMA SendStep ==
    ASSUME IInv, NEW m, Boxes(m), NEW g, NEW e \in Event,
           \A s \in Socket : sock[s].pc = "unused" => m[s] = mail[s]
    PROVE  /\ Boxes(group_send(m, g, e))
           /\ \A s \in Socket : sock[s].pc = "unused" => group_send(m, g, e)[s] = mail[s]
<1>1. \A s \in Socket : sock[s].pc = "unused" => member[s] = {}
  BY DEF IInv, SockOK, UnusedOK
<1> QED BY <1>1, SendType DEF group_send

\* _broadcast_alert queues no notifications.
LEMMA AlertSent ==
    ASSUME IInv, NEW a \in Alerts, mail' = BroadcastAlert(mail, a), UNCHANGED <<sock, member, faults>>,
           \A u \in User : inbox[u] \subseteq inbox'[u]
    PROVE  SocketTypeOK' /\ (\A s \in Socket : SockOK(s)') /\ PushedIsStored'
<1> DEFINE e == Message("alert", a)
           m == group_send(mail, GROUP_ALERTS, e)
           o == group_for_org(AlertOrg)
<1>1. e \in Event /\ e.event # "notification"
  BY DEF Message, Event
<1>2. Boxes(mail) /\ mail' = group_send(m, o, e)
  BY DEF IInv, TypeOK, SocketTypeOK, Boxes, BroadcastAlert
<1> HIDE DEF e, o
<1>3. Boxes(m) /\ \A s \in Socket : sock[s].pc = "unused" => m[s] = mail[s]
  BY <1>1, <1>2, SendStep
<1>4. \A s \in Socket : \A i \in DOMAIN m[s] : (i \in DOMAIN mail[s] /\ m[s][i] = mail[s][i]) \/ m[s][i] = e
  BY <1>1, <1>2, SendContent
<1> HIDE DEF m
<1>5. Boxes(mail') /\ \A s \in Socket : sock[s].pc = "unused" => mail'[s] = mail[s]
  BY <1>1, <1>2, <1>3, SendStep
<1>6. \A s \in Socket : \A i \in DOMAIN mail'[s] :
        (i \in DOMAIN m[s] /\ mail'[s][i] = m[s][i]) \/ mail'[s][i] = e
  BY <1>1, <1>2, <1>3, SendContent
<1>7. PushedIsStored'
  BY <1>1, <1>4, <1>6, StoredStep
<1> QED BY <1>5, <1>7, BoxStep

\* What a worker does to its own locals and nothing else.
LEMMA WorkStep ==
    ASSUME IInv, NEW w \in Worker, NEW e \in Emit, EmitOK(e),
           work' = [work EXCEPT ![w] = e],
           UNCHANGED <<accessVars, socketVars, inbox, enabled, notify>>, faults' \in 0..MaxFaults,
           alert' \in [Alerts -> Alert], task' \in [Slot -> Delivery]
    PROVE  IInv'
<1>1. AccessTypeOK' /\ CenterTypeOK'
  BY DEF IInv, TypeOK, AccessTypeOK, CenterTypeOK, accessVars
<1>2. SocketTypeOK' /\ \A s \in Socket : SockOK(s)'
  BY FaultStep
<1>3. PushedIsStored'
  BY DEF IInv, StoreOK, PushedIsStored, socketVars
<1>4. \A x \in Worker : EmitOK(work[x])'
  BY DEF IInv, StoreOK, EmitOK, TypeOK, CenterTypeOK
<1> QED BY <1>1, <1>2, <1>3, <1>4 DEF IInv, TypeOK, StoreOK

\* Steps of accounts, deliveries and the clock.
LEMMA QuietStep ==
    ASSUME IInv, AccessTypeOK', UNCHANGED <<socketVars, work, inbox, notify>>, faults' \in 0..MaxFaults,
           alert' \in [Alerts -> Alert], task' \in [Slot -> Delivery], enabled' \subseteq Channel
    PROVE  IInv'
<1>1. CenterTypeOK'
  BY DEF IInv, TypeOK, CenterTypeOK
<1>2. SocketTypeOK' /\ \A s \in Socket : SockOK(s)'
  BY FaultStep
<1>3. StoreOK'
  BY DEF IInv, StoreOK, EmitOK, PushedIsStored, socketVars
<1> QED BY <1>1, <1>2, <1>3 DEF IInv, TypeOK

\* Every step of raise_alert, _emit and _fan_out keeps the invariant.
LEMMA EmitInv ==
    ASSUME IInv, NEW w \in Worker,
           \/ \E a \in Alerts : RaiseNew(w, a) \/ RaiseAgain(w, a)
           \/ EmitStep(w) \/ EmitFails(w)
    PROVE  IInv'
<1> DEFINE c == work[w]
<1>1. /\ c \in Emit /\ EmitOK(c) /\ alert \in [Alerts -> Alert] /\ task \in [Slot -> Delivery]
      /\ faults \in 0..MaxFaults /\ inbox \in [User -> SUBSET Alerts]
      /\ work \in [Worker -> Emit] /\ enabled \subseteq Channel /\ notify \subseteq Channel
  BY DEF IInv, TypeOK, SocketTypeOK, CenterTypeOK, StoreOK
<1>2. Idle \in Emit /\ EmitOK(Idle)
  BY DEF Idle, Emit, EmitOK
<1>3. ASSUME NEW a \in Alerts, RaiseNew(w, a) PROVE IInv'
  <2> DEFINE d == [Idle EXCEPT !.pc = "stamp", !.alert = a]
  <2>1. d \in Emit /\ EmitOK(d)
    BY DEF Idle, Emit, EmitOK
  <2>2. alert' \in [Alerts -> Alert]
    BY <1>1, <1>3 DEF RaiseNew, Alert, Status
  <2>3. work' = [work EXCEPT ![w] = d] /\ faults' \in 0..MaxFaults /\ task' \in [Slot -> Delivery]
    BY <1>1, <1>3 DEF RaiseNew
  <2> QED BY <1>3, <2>1, <2>2, <2>3, WorkStep DEF RaiseNew
<1>4. ASSUME NEW a \in Alerts, RaiseAgain(w, a) PROVE IInv'
  <2> DEFINE d == [Idle EXCEPT !.pc = "stamp", !.alert = a]
  <2>1. d \in Emit /\ EmitOK(d)
    BY DEF Idle, Emit, EmitOK
  <2>2. work' = [work EXCEPT ![w] = d] /\ faults' \in 0..MaxFaults /\ task' \in [Slot -> Delivery]
        /\ alert' \in [Alerts -> Alert]
    BY <1>1, <1>4 DEF RaiseAgain
  <2> QED BY <1>4, <2>1, <2>2, WorkStep DEF RaiseAgain
<1>5. ASSUME Stamp(w) PROVE IInv'
  <2> DEFINE d == [c EXCEPT !.pc = "cast"]
  <2>1. d \in Emit /\ EmitOK(d)
    BY <1>1, <1>5 DEF Emit, EmitOK, Stamp, At
  <2>2. alert' \in [Alerts -> Alert]
    BY <1>1, <1>5 DEF Stamp, At, EmitOK, Alert
  <2>3. work' = [work EXCEPT ![w] = d] /\ faults' \in 0..MaxFaults /\ task' \in [Slot -> Delivery]
    BY <1>1, <1>5 DEF Stamp
  <2> QED BY <1>5, <2>1, <2>2, <2>3, WorkStep DEF Stamp
<1>6. ASSUME Cast(w) PROVE IInv'
  <2>1. c.alert \in Alerts /\ mail' = BroadcastAlert(mail, c.alert)
    BY <1>1, <1>6 DEF Cast, At, EmitOK
  <2>2. SocketTypeOK' /\ (\A s \in Socket : SockOK(s)') /\ PushedIsStored'
    BY <1>6, <2>1, AlertSent DEF Cast
  <2> DEFINE d == [c EXCEPT !.pc = "targets"]
  <2>3. d \in Emit /\ EmitOK(d)
    BY <1>1, <2>1 DEF Emit, EmitOK
  <2>4. work' = [work EXCEPT ![w] = d]
    BY <1>6 DEF Cast
  <2>5. AccessTypeOK' /\ CenterTypeOK'
    BY <1>1, <1>6, <2>3, <2>4 DEF Cast, IInv, TypeOK, AccessTypeOK, CenterTypeOK, accessVars
  <2>6. \A x \in Worker : EmitOK(work[x])'
    BY <1>1, <1>6, <2>3, <2>4 DEF Cast, IInv, StoreOK, EmitOK
  <2> QED BY <2>2, <2>5, <2>6 DEF IInv, TypeOK, StoreOK
<1>7. ASSUME PickTargets(w) PROVE IInv'
  <2> DEFINE d == [c EXCEPT !.pc = "fan", !.channels = Targets]
  <2>1. Targets \subseteq Channel
    BY <1>1 DEF Targets
  <2>2. d \in Emit /\ EmitOK(d)
    BY <1>1, <1>7, <2>1 DEF Emit, EmitOK, PickTargets, At
  <2>3. work' = [work EXCEPT ![w] = d] /\ faults' \in 0..MaxFaults /\ task' \in [Slot -> Delivery]
        /\ alert' \in [Alerts -> Alert]
    BY <1>1, <1>7 DEF PickTargets
  <2> QED BY <1>7, <2>2, <2>3, WorkStep DEF PickTargets
<1>8. ASSUME NEW k \in Channel, FanSkip(w, k) PROVE IInv'
  <2> DEFINE d == [c EXCEPT !.channels = c.channels \ {k}]
  <2>1. d \in Emit /\ EmitOK(d)
    BY <1>1, <1>8 DEF Emit, EmitOK, FanSkip, At
  <2>2. work' = [work EXCEPT ![w] = d] /\ faults' \in 0..MaxFaults /\ task' \in [Slot -> Delivery]
        /\ alert' \in [Alerts -> Alert]
    BY <1>1, <1>8 DEF FanSkip
  <2> QED BY <1>8, <2>1, <2>2, WorkStep DEF FanSkip
<1>9. ASSUME NEW k \in Channel, NEW t \in Slot, FanOutside(w, k, t) PROVE IInv'
  <2> DEFINE d == [c EXCEPT !.channels = c.channels \ {k}]
  <2>1. d \in Emit /\ EmitOK(d)
    BY <1>1, <1>9 DEF Emit, EmitOK, FanOutside, At
  <2>2. task' \in [Slot -> Delivery]
    BY <1>1, <1>9 DEF FanOutside, Delivery, Emit
  <2>3. work' = [work EXCEPT ![w] = d] /\ faults' \in 0..MaxFaults /\ alert' \in [Alerts -> Alert]
    BY <1>1, <1>9 DEF FanOutside
  <2> QED BY <1>9, <2>1, <2>2, <2>3, WorkStep DEF FanOutside
<1>10. ASSUME NEW k \in Channel, FanInApp(w, k) PROVE IInv'
  <2> DEFINE r == {u \in User : Recipient(u)}
             d == [c EXCEPT !.pc = "push", !.channels = c.channels \ {k}, !.recipients = r]
  <2>1. c.alert \in Alerts
    BY <1>1, <1>10 DEF FanInApp, At, EmitOK
  <2>2. work' = [work EXCEPT ![w] = d]
        /\ inbox' = [u \in User |-> IF u \in r THEN inbox[u] \union {c.alert} ELSE inbox[u]]
    BY <1>10 DEF FanInApp
  <2>3. /\ d \in Emit /\ d.alert = c.alert /\ d.recipients = r
    BY <1>1 DEF Emit
  <2>4. inbox' \in [User -> SUBSET Alerts] /\ \A u \in User : inbox[u] \subseteq inbox'[u]
    BY <1>1, <2>1, <2>2
  <2>5. \A u \in r : c.alert \in inbox'[u]
    BY <2>2
  <2> HIDE DEF d, r
  <2>6. AccessTypeOK' /\ CenterTypeOK'
    BY <1>1, <1>10, <2>2, <2>3, <2>4
       DEF FanInApp, IInv, TypeOK, AccessTypeOK, CenterTypeOK, accessVars
  <2>7. SocketTypeOK' /\ \A s \in Socket : SockOK(s)'
    BY <1>1, <1>10, FaultStep DEF FanInApp
  <2>8. PushedIsStored'
    BY <1>10, <2>4, StoredStep DEF FanInApp, socketVars
  <2>9. ASSUME NEW x \in Worker PROVE EmitOK(work[x])'
    <3>1. CASE x = w
      BY <1>1, <2>1, <2>2, <2>3, <2>5, <3>1 DEF EmitOK
    <3>2. CASE x # w
      <4>1. work'[x] = work[x] /\ EmitOK(work[x]) /\ work[x].recipients \subseteq User
        BY <1>1, <2>2, <3>2 DEF IInv, StoreOK, Emit
      <4> QED BY <2>4, <4>1 DEF EmitOK
    <3> QED BY <3>1, <3>2
  <2> QED BY <2>6, <2>7, <2>8, <2>9 DEF IInv, TypeOK, StoreOK
<1>11. ASSUME NEW u \in User, Push(w, u) PROVE IInv'
  <2> DEFINE d == [c EXCEPT !.recipients = c.recipients \ {u}]
             e == Message("notification", c.alert)
             g == group_for_user(u)
  <2>1. c.alert \in Alerts /\ c.pc = "push" /\ c.alert \in inbox[u] /\ u \in c.recipients
    BY <1>1, <1>11 DEF Push, ToPush, At, EmitOK
  <2>2. e \in Event /\ e.alert = c.alert
    BY <2>1 DEF Message, Event
  <2>3. Boxes(mail) /\ mail' = group_send(mail, g, e) /\ UNCHANGED <<sock, member, faults, inbox>>
    BY <1>11 DEF Push, IInv, TypeOK, SocketTypeOK, Boxes
  <2>4. work' = [work EXCEPT ![w] = d]
    BY <1>11 DEF Push
  <2>5. d \in Emit /\ EmitOK(d)
    BY <1>1, <2>1 DEF Emit, EmitOK
  <2> HIDE DEF d, e
  <2>6. Boxes(mail') /\ \A s \in Socket : sock[s].pc = "unused" => mail'[s] = mail[s]
    BY <2>2, <2>3, SendStep
  <2>7. SocketTypeOK' /\ \A s \in Socket : SockOK(s)'
    BY <2>3, <2>6, BoxStep
  <2>8. ASSUME NEW s \in Socket, NEW i \in DOMAIN mail'[s]
        PROVE  \/ i \in DOMAIN mail[s] /\ mail'[s][i] = mail[s][i]
               \/ sock[s].uid # None => mail'[s][i].alert \in inbox'[sock[s].uid]
    <3>1. \/ i \in DOMAIN mail[s] /\ mail'[s][i] = mail[s][i]
          \/ g \in member[s] /\ mail'[s][i] = e
      BY <2>2, <2>3, SendContent
    <3>2. g \in member[s] /\ sock[s].uid # None => sock[s].uid = u
      BY PrivateMember
    <3> QED BY <2>1, <2>2, <2>3, <3>1, <3>2
  <2>9. PushedIsStored'
    BY <2>3, <2>8, StoredStep
  <2>10. AccessTypeOK' /\ CenterTypeOK'
    BY <1>1, <1>11, <2>4, <2>5 DEF Push, IInv, TypeOK, AccessTypeOK, CenterTypeOK, accessVars
  <2>11. \A x \in Worker : EmitOK(work[x])'
    BY <1>1, <2>3, <2>4, <2>5 DEF IInv, StoreOK, EmitOK
  <2> QED BY <2>7, <2>9, <2>10, <2>11 DEF IInv, TypeOK, StoreOK
<1>12. ASSUME Pushed(w) PROVE IInv'
  <2> DEFINE d == [c EXCEPT !.pc = "fan"]
  <2>1. d \in Emit /\ EmitOK(d)
    BY <1>1, <1>12 DEF Emit, EmitOK, Pushed, At
  <2>2. work' = [work EXCEPT ![w] = d] /\ faults' \in 0..MaxFaults /\ task' \in [Slot -> Delivery]
        /\ alert' \in [Alerts -> Alert]
    BY <1>1, <1>12 DEF Pushed
  <2> QED BY <1>12, <2>1, <2>2, WorkStep DEF Pushed
<1>13. ASSUME Audit(w) PROVE IInv'
  <2>1. work' = [work EXCEPT ![w] = Idle] /\ faults' \in 0..MaxFaults
        /\ task' \in [Slot -> Delivery] /\ alert' \in [Alerts -> Alert]
    BY <1>1, <1>13 DEF Audit
  <2> QED BY <1>2, <1>13, <2>1, WorkStep DEF Audit
<1>14. ASSUME EmitFails(w) PROVE IInv'
  <2>1. work' = [work EXCEPT ![w] = Idle] /\ faults' \in 0..MaxFaults
        /\ task' \in [Slot -> Delivery] /\ alert' \in [Alerts -> Alert]
    BY <1>1, <1>14, FaultsAssumption DEF EmitFails
  <2> QED BY <1>2, <1>14, <2>1, WorkStep DEF EmitFails
<1> QED BY <1>3, <1>4, <1>5, <1>6, <1>7, <1>8, <1>9, <1>10, <1>11, <1>12, <1>13, <1>14 DEF EmitStep

\* Every step of a delivery keeps the invariant.
LEMMA DeliveryInv ==
    ASSUME IInv, NEW t \in Slot, DeliveryStep(t) \/ DeliveryLost(t)
    PROVE  IInv'
<1>1. /\ task \in [Slot -> Delivery] /\ task[t] \in Delivery /\ AccessTypeOK
      /\ alert \in [Alerts -> Alert] /\ enabled \subseteq Channel /\ faults \in 0..MaxFaults
  BY DEF IInv, TypeOK, SocketTypeOK, CenterTypeOK
<1>2. Free \in Delivery
  BY DEF Free, Delivery
<1>3. Retry(t) \in Delivery
  <2>1. task[t].retries \in Nat
    BY <1>1 DEF Delivery
  <2>2. task[t].retries + 1 \in Nat
    BY <2>1
  <2>3. [task[t] EXCEPT !.pc = "waiting", !.retries = task[t].retries + 1] \in Delivery
    BY <1>1, <2>2 DEF Delivery
  <2> QED BY <1>2, <2>3 DEF Retry
<1>4. \A pc \in {"sending", "queued"} : [task[t] EXCEPT !.pc = pc] \in Delivery
  BY <1>1 DEF Delivery
<1>5. task' \in [Slot -> Delivery]
  BY <1>1, <1>2, <1>3, <1>4 DEF DeliveryStep, Take, Delivered, DeliveryFails, RetryDue, DeliveryLost
<1>6. /\ UNCHANGED <<accessVars, socketVars, work, inbox, notify, alert, enabled>>
      /\ faults' \in 0..MaxFaults
  BY <1>1, FaultsAssumption
     DEF DeliveryStep, Take, Delivered, DeliveryFails, RetryDue, DeliveryLost
<1>7. AccessTypeOK'
  BY <1>1, <1>6 DEF AccessTypeOK, accessVars
<1> QED BY <1>1, <1>5, <1>6, <1>7, QuietStep

\* Every other step keeps it as well.
LEMMA NextInv == ASSUME IInv, [Next]_vars PROVE IInv'
<1>1. /\ AccessTypeOK /\ task \in [Slot -> Delivery] /\ alert \in [Alerts -> Alert]
      /\ enabled \subseteq Channel /\ faults \in 0..MaxFaults /\ work \in [Worker -> Emit]
  BY DEF IInv, TypeOK, SocketTypeOK, CenterTypeOK
<1>2. ASSUME AccessNext, RememberGrants, UNCHANGED <<member, mail, faults, centerVars>> PROVE IInv'
  <2>1. AccessTypeOK'
    BY <1>1, <1>2, AccessType
  <2>2. CenterTypeOK'
    BY <1>2 DEF IInv, TypeOK, CenterTypeOK, centerVars
  <2>3. SocketTypeOK' /\ (\A s \in Socket : SockOK(s)') /\ PushedIsStored'
    BY <1>2, RememberStep DEF centerVars
  <2>4. \A x \in Worker : EmitOK(work[x])'
    BY <1>2 DEF IInv, StoreOK, EmitOK, centerVars
  <2> QED BY <2>1, <2>2, <2>3, <2>4 DEF IInv, TypeOK, StoreOK
<1>3. ASSUME RealtimeNext, UNCHANGED <<accessVars, centerVars>> PROVE IInv'
  BY <1>3, RealtimeInv DEF RealtimeNext
<1>4. ASSUME NEW w \in Worker, NEW a \in Alerts, AutoResolve(w, a) PROVE IInv'
  <2>1. alert' \in [Alerts -> Alert]
    BY <1>1, <1>4 DEF AutoResolve, Alert, Status
  <2>2. AccessTypeOK'
    BY <1>1, <1>4 DEF AutoResolve, AccessTypeOK, accessVars
  <2> QED BY <1>1, <1>4, <2>1, <2>2, QuietStep DEF AutoResolve
<1>5. ASSUME NEW a \in Alerts, CooldownElapses(a) PROVE IInv'
  <2>1. alert' \in [Alerts -> Alert]
    BY <1>1, <1>5 DEF CooldownElapses, Alert
  <2>2. AccessTypeOK'
    BY <1>1, <1>5 DEF CooldownElapses, AccessTypeOK, accessVars
  <2> QED BY <1>1, <1>5, <2>1, <2>2, QuietStep DEF CooldownElapses
<1>6. ASSUME NEW u \in User, NEW n \in Alerts, Close(u, n) PROVE IInv'
  <2>1. alert' \in [Alerts -> Alert]
    BY <1>1, <1>6 DEF Close, Alert, Status
  <2>2. SocketTypeOK' /\ (\A s \in Socket : SockOK(s)') /\ PushedIsStored'
    BY <1>6, AlertSent DEF Close
  <2>3. AccessTypeOK' /\ CenterTypeOK'
    BY <1>6, <2>1 DEF Close, IInv, TypeOK, AccessTypeOK, CenterTypeOK, accessVars
  <2>4. \A x \in Worker : EmitOK(work[x])'
    BY <1>6 DEF Close, IInv, StoreOK, EmitOK
  <2> QED BY <2>2, <2>3, <2>4 DEF IInv, TypeOK, StoreOK
<1>7. ASSUME NEW u \in User, NEW k \in Channel, EditChannel(u, k) PROVE IInv'
  <2>1. AccessTypeOK'
    BY <1>1, <1>7, EditsAssumption DEF EditChannel, CountEdit, AccessTypeOK
  <2> QED BY <1>1, <1>7, <2>1, QuietStep DEF EditChannel
<1>8. CASE UNCHANGED vars
  <2>1. AccessTypeOK'
    BY <1>1, <1>8 DEF vars, AccessTypeOK, accessVars
  <2> QED BY <1>1, <1>8, <2>1, QuietStep DEF vars, centerVars
<1> QED BY <1>2, <1>3, <1>4, <1>5, <1>6, <1>7, <1>8, EmitInv, DeliveryInv DEF Next

\* The initial states satisfy the invariant.
LEMMA InitInv == ASSUME Init PROVE IInv
<1>1. AccessTypeOK
  BY AccountsAssumption, EditsAssumption DEF Init, AccessInit, AccessTypeOK, Grant
<1>2. /\ sock = [s \in Socket |-> NoHandler("unused")] /\ member = [s \in Socket |-> {}]
      /\ mail = [s \in Socket |-> <<>>] /\ faults = 0
  BY DEF Init, RealtimeInit
<1>3. <<>> \in Seq(Group) /\ <<>> \in Seq(Event) /\ Len(<<>>) <= Capacity
  BY LayerAssumption
<1>4. NoHandler("unused") \in Connection
  BY <1>3 DEF NoHandler, Connection, State
<1>5. SocketTypeOK
  BY <1>2, <1>3, <1>4, FaultsAssumption DEF SocketTypeOK
<1>6. CenterTypeOK
  <2>1. Idle \in Emit /\ Free \in Delivery
    BY DEF Idle, Emit, Free, Delivery
  <2> QED BY <2>1, ChannelAssumption DEF Init, CenterTypeOK, Alert, Status
<1>7. \A s \in Socket : SockOK(s)
  BY <1>2 DEF NoHandler, SockOK, UnusedOK, GoneOK, WaitingOK, JoinedOK, LeavingOK, Blank
<1>8. StoreOK
  BY <1>2 DEF Init, Idle, StoreOK, EmitOK, PushedIsStored
<1> QED BY <1>1, <1>5, <1>6, <1>7, <1>8 DEF IInv, TypeOK

-----------------------------------------------------------------------------
(* Theorems *)

\* The inductive invariant holds in every reachable state.
THEOREM Inductive == Spec => []IInv
  BY InitInv, NextInv, PTL DEF Spec

\* Types, and the capacity of every mailbox, for any number of clients, workers
\* and channels.
THEOREM TypeCorrect == Spec => []TypeOK
<1>1. IInv => TypeOK
  BY DEF IInv
<1> QED BY <1>1, Inductive, PTL

\* A connection that has been left is in no group.
THEOREM ConnectionsLeave == Spec => []CleanExit
<1>1. IInv => CleanExit
  BY DEF IInv, CleanExit, SockOK, GoneOK
<1> QED BY <1>1, Inductive, PTL

\* A greeted client is in all groups of its feed, until the layer expires them.
THEOREM ConnectionsJoin == Spec => []ConnectedIsJoined
<1>1. IInv => ConnectedIsJoined
  <2> SUFFICES ASSUME IInv, NEW s \in Socket, sock[s].pc = "live", ~ sock[s].lapsed
               PROVE  member[s] = Promised(s)
    BY DEF ConnectedIsJoined, Promised
  <2>1. JoinedOK(s) /\ Range(<<>>) = {}
    BY DEF IInv, SockOK, Range
  <2> QED BY <2>1 DEF JoinedOK
<1> QED BY <1>1, Inductive, PTL

\* A pushed notification is stored.
THEOREM PushesAreStored == Spec => []PushedIsStored
<1>1. IInv => PushedIsStored
  BY DEF IInv, StoreOK
<1> QED BY <1>1, Inductive, PTL

-----------------------------------------------------------------------------
(* Device feeds only for users entitled to them *)

\* The groups a connection is in, has joined, or still has on its list.
Held(s) == member[s] \union Range(sock[s].groups_joined) \union Range(sock[s].todo)

\* What DeviceFeedsGranted demands of connection s and device d.
Entitled(s, d) ==
    \/ is_platform_admin(sock[s].row)
    \/ /\ DeviceOrg[d] = sock[s].row.org
       /\ sock[s].row.role \in {"engineer", "operator"} \/ d \in sock[s].granted

HeldGranted(s) ==
    sock[s].pc # "dead" =>
      \A d \in Devices : group_for_device(d) \in Held(s) => Entitled(s, d)

\* The history knows the grants of the moment.
GrantsKnown(s) ==
    sock[s].uid # None =>
      {d \in Devices : grant[sock[s].uid][d] # "none"} \subseteq sock[s].granted

FeedInv == \A s \in Socket : HeldGranted(s) /\ GrantsKnown(s)

\* Groups of different devices differ, and from the other groups.
LEMMA DeviceGroup ==
    ASSUME NEW d, NEW e
    PROVE  /\ group_for_device(d) = group_for_device(e) => d = e
           /\ group_for_device(d) # GROUP_ALERTS
           /\ \A o : group_for_device(d) # group_for_org(o) /\ group_for_device(d) # group_for_user(o)
<1>1. group_for_device(d)[1] = "device" /\ group_for_device(d)[2] = d /\ group_for_device(e)[2] = e
  BY DEF group_for_device
<1>2. GROUP_ALERTS[1] = "alerts"
  BY DEF GROUP_ALERTS
<1>3. \A o : group_for_org(o)[1] = "org" /\ group_for_user(o)[1] = "user"
  BY DEF group_for_org, group_for_user
<1> QED BY <1>1, <1>2, <1>3

\* The dashboard and the alert feed have no group of a device.
LEMMA NoDeviceGroup ==
    ASSUME NEW f, NEW u, NEW row \in UserRow, f[1] # "device",
           f[1] \in {"dashboard", "alerts", "device"}, NEW d
    PROVE  group_for_device(d) \notin Range(FeedGroups(f, u, row))
<1>1. \A h \in Range(OrgGroups(row)) : h = group_for_org(row.org)
  BY OrgGroupsType
<1>2. OrgGroups(row) \in Seq(Group)
  BY OrgGroupsType
<1>3. CASE f[1] = "dashboard"
  <2>1. \A g \in Range(FeedGroups(f, u, row)) : g \in Range(OrgGroups(row)) \/ g = GROUP_ALERTS
    BY <1>2, <1>3 DEF FeedGroups, DashboardGroups, Range
  <2> QED BY <1>1, <2>1, DeviceGroup
<1>4. CASE f[1] = "alerts"
  <2>1. \A g \in Range(FeedGroups(f, u, row)) :
          g \in Range(OrgGroups(row)) \/ g = GROUP_ALERTS \/ g = group_for_user(u)
    BY <1>2, <1>4 DEF FeedGroups, AlertGroups, Range
  <2> QED BY <1>1, <2>1, DeviceGroup
<1> QED BY <1>3, <1>4

LEMMA SingletonRange == ASSUME NEW x PROVE Range(<<x>>) = {x}
  BY DEF Range

\* Whatever a connection does, it comes to hold groups of such devices only.
LEMMA HeldStep ==
    ASSUME IInv, FeedInv, NEW s \in Socket, UNCHANGED accessVars,
           \/ \E u \in User, f \in Feeds : Connect(s, u, f)
           \/ Unauthorized(s) \/ Handler(s) \/ Disconnect(s)
           \/ MessageExpires(s) \/ MembershipExpires(s) \/ SocketDies(s)
    PROVE  FeedInv'
<1> DEFINE c == sock[s]
           Goal == HeldGranted(s)' /\ GrantsKnown(s)'
<1>1. /\ c \in Connection /\ SockOK(s) /\ sock \in [Socket -> Connection]
      /\ member \in [Socket -> SUBSET Group] /\ user \in [User -> UserRow]
      /\ c.todo \in Seq(Group) /\ c.groups_joined \in Seq(Group)
  BY DEF IInv, TypeOK, AccessTypeOK, SocketTypeOK, Connection
<1>2. Range(<<>>) = {}
  BY DEF Range
<1>3. ASSUME NEW t \in Socket, t # s PROVE sock'[t] = sock[t] /\ member'[t] = member[t]
  BY <1>1, <1>3 DEF Connect, Unauthorized, Handler, CheckDevice, Join, Greet, Leave, Closed, Relay,
     Disconnect, MessageExpires, MembershipExpires, SocketDies
<1>4. ASSUME sock'[s].uid = c.uid, sock'[s].row = c.row, sock'[s].granted = c.granted,
             c.pc = "dead" => sock'[s].pc = "dead", Held(s)' \subseteq Held(s)
      PROVE  Goal
  <2>1. HeldGranted(s)'
    BY <1>4 DEF FeedInv, HeldGranted, Entitled
  <2>2. GrantsKnown(s)'
    BY <1>4 DEF FeedInv, GrantsKnown, accessVars
  <2> QED BY <2>1, <2>2
<1>5. ASSUME NEW pc, sock'[s] = NoHandler(pc), member'[s] = {} PROVE Goal
  <2>1. Held(s)' = {} /\ sock'[s].uid = None
    BY <1>2, <1>5 DEF Held, NoHandler
  <2> QED BY <2>1 DEF HeldGranted, GrantsKnown
<1>6. ASSUME NEW u \in User, NEW f \in Feeds, Connect(s, u, f) PROVE Goal
  <2> DEFINE device == f[1] = "device"
  <2>1. sock'[s] = [c EXCEPT !.pc = IF device THEN "checking" ELSE "joining",
                             !.feed = f, !.uid = u, !.row = user[u],
                             !.todo = IF device THEN <<>> ELSE FeedGroups(f, u, user[u]),
                             !.granted = {x \in Devices : grant[u][x] # "none"}]
    BY <1>1, <1>6 DEF Connect
  <2>2. /\ sock'[s].granted = {x \in Devices : grant[u][x] # "none"}
        /\ sock'[s].uid = u /\ sock'[s].row = user[u] /\ sock'[s].groups_joined = c.groups_joined
        /\ sock'[s].todo = IF device THEN <<>> ELSE FeedGroups(f, u, user[u])
    BY <1>1, <2>1 DEF Connection
  <2>3. member'[s] = {} /\ c.groups_joined = <<>>
    BY <1>1, <1>6 DEF Connect, SockOK, UnusedOK, Blank
  <2>4. f[1] \in {"dashboard", "alerts", "device"} /\ user[u] \in UserRow
    BY <1>1, LayerAssumption DEF Route
  <2>5. \A g \in Held(s)' : ~ device /\ g \in Range(FeedGroups(f, u, user[u]))
    BY <1>2, <2>2, <2>3 DEF Held
  <2>6. \A d \in Devices : group_for_device(d) \notin Held(s)'
    BY <2>4, <2>5, NoDeviceGroup
  <2> QED BY <2>2, <2>6 DEF HeldGranted, GrantsKnown, accessVars
<1>7. ASSUME CheckDevice(s) PROVE Goal
  <2>1. /\ c.feed[1] = "device" /\ c.row \in UserRow /\ member[s] = {}
        /\ c.groups_joined = <<>> /\ c.todo = <<>> /\ c.uid \in User
    BY <1>1, <1>7 DEF CheckDevice, SockOK, WaitingOK, Served
  <2> DEFINE cleared == c.feed[2] \in Devices /\ can_access_device(c.row, grant[c.uid], c.feed[2], FALSE)
             todo == FeedGroups(c.feed, c.uid, c.row)
  <2>2. CASE cleared
    <3>1. sock'[s] = [c EXCEPT !.pc = "joining", !.todo = todo] /\ member'[s] = {}
      BY <1>1, <1>7, <2>1, <2>2 DEF CheckDevice
    <3> HIDE DEF todo
    <3>2. /\ sock'[s].uid = c.uid /\ sock'[s].row = c.row /\ sock'[s].granted = c.granted
          /\ sock'[s].groups_joined = <<>> /\ sock'[s].todo = todo
      BY <1>1, <2>1, <3>1 DEF Connection
    <3>3. Held(s)' = Range(todo)
      BY <1>2, <3>1, <3>2 DEF Held
    <3>4. todo = <<group_for_device(c.feed[2])>>
      BY <2>1 DEF todo, FeedGroups, DeviceGroups
    <3>5. \A d \in Devices : group_for_device(d) \in Held(s)' => d = c.feed[2]
      BY <3>3, <3>4, SingletonRange, DeviceGroup
    <3>6. \/ is_platform_admin(c.row)
          \/ /\ DeviceOrg[c.feed[2]] = c.row.org
             /\ c.row.role \in {"engineer", "operator"} \/ grant[c.uid][c.feed[2]] # "none"
      BY <2>2 DEF can_access_device
    <3>7. grant[c.uid][c.feed[2]] # "none" => c.feed[2] \in c.granted
      <4>1. c.uid # None /\ c.feed[2] \in Devices
        BY <2>1, <2>2, AccountsAssumption
      <4>2. GrantsKnown(s)
        BY DEF FeedInv
      <4> HIDE DEF c
      <4>3. grant[sock[s].uid][c.feed[2]] # "none" => c.feed[2] \in sock[s].granted
        BY <4>1, <4>2 DEF GrantsKnown, c
      <4> QED BY <4>3 DEF c
    <3>8. HeldGranted(s)'
      BY <3>2, <3>5, <3>6, <3>7 DEF HeldGranted, Entitled
    <3>9. GrantsKnown(s)'
      BY <3>2 DEF FeedInv, GrantsKnown, accessVars
    <3> QED BY <3>8, <3>9
  <2>3. CASE ~ cleared
    <3>1. sock'[s] = [c EXCEPT !.pc = "refused"] /\ member'[s] = {}
      BY <1>1, <1>7, <2>1, <2>3 DEF CheckDevice
    <3>2. /\ sock'[s].uid = c.uid /\ sock'[s].row = c.row /\ sock'[s].granted = c.granted
          /\ sock'[s].groups_joined = <<>> /\ sock'[s].todo = <<>> /\ sock'[s].pc # "dead"
      BY <1>1, <2>1, <3>1 DEF Connection
    <3>3. Held(s)' = {} /\ c.pc # "dead"
      BY <1>2, <1>7, <3>1, <3>2 DEF Held, CheckDevice
    <3> QED BY <1>4, <3>2, <3>3
  <2> QED BY <2>2, <2>3
<1>8. ASSUME Join(s) PROVE Goal
  <2>1. sock'[s] = [c EXCEPT !.groups_joined = Append(c.groups_joined, Head(c.todo)), !.todo = Tail(c.todo)]
    BY <1>1, <1>8 DEF Join
  <2>2. /\ sock'[s].uid = c.uid /\ sock'[s].row = c.row /\ sock'[s].todo = Tail(c.todo)
        /\ sock'[s].granted = c.granted /\ sock'[s].groups_joined = Append(c.groups_joined, Head(c.todo))
    BY <1>1, <2>1 DEF Connection
  <2>3. member'[s] = member[s] \union {Head(c.todo)} /\ c.todo # <<>> /\ c.pc # "dead"
    BY <1>1, <1>8 DEF Join
  <2>4. /\ Range(Append(c.groups_joined, Head(c.todo))) = Range(c.groups_joined) \union {Head(c.todo)}
        /\ Range(c.todo) = {Head(c.todo)} \union Range(Tail(c.todo))
    <3>1. c.groups_joined \in Seq(Group) /\ c.todo \in Seq(Group) /\ c.todo # <<>>
      BY <1>1, <2>3
    <3> QED BY <3>1, GroupsMoveOn
  <2>5. Held(s)' \subseteq Held(s)
    BY <2>2, <2>3, <2>4 DEF Held
  <2> QED BY <1>4, <2>2, <2>3, <2>5
<1>9. ASSUME Leave(s) PROVE Goal
  <2>1. sock'[s] = [c EXCEPT !.todo = Tail(c.todo)]
    BY <1>1, <1>9 DEF Leave
  <2>2. /\ sock'[s].uid = c.uid /\ sock'[s].row = c.row /\ sock'[s].todo = Tail(c.todo)
        /\ sock'[s].granted = c.granted /\ sock'[s].groups_joined = c.groups_joined
    BY <1>1, <2>1 DEF Connection
  <2>3. member'[s] \subseteq member[s] /\ c.todo # <<>> /\ c.pc # "dead"
    BY <1>1, <1>9 DEF Leave
  <2>4. Range(Tail(c.todo)) \subseteq Range(c.todo)
    BY <1>1, <2>3, RangeSteps
  <2>5. Held(s)' \subseteq Held(s)
    BY <2>2, <2>3, <2>4 DEF Held
  <2> QED BY <1>4, <2>2, <2>3, <2>5
<1>10. ASSUME Disconnect(s) PROVE Goal
  <2>1. sock'[s] = [c EXCEPT !.pc = "leaving", !.todo = c.groups_joined]
    BY <1>1, <1>10 DEF Disconnect
  <2>2. /\ sock'[s].uid = c.uid /\ sock'[s].row = c.row /\ sock'[s].todo = c.groups_joined
        /\ sock'[s].granted = c.granted /\ sock'[s].groups_joined = c.groups_joined
    BY <1>1, <2>1 DEF Connection
  <2>3. member'[s] = member[s] /\ c.pc # "dead"
    BY <1>10 DEF Disconnect
  <2>4. Held(s)' \subseteq Held(s)
    BY <2>2, <2>3 DEF Held
  <2> QED BY <1>4, <2>2, <2>3, <2>4
<1>11. ASSUME Greet(s) PROVE Goal
  <2>1. sock'[s] = [c EXCEPT !.pc = "live"]
    BY <1>1, <1>11 DEF Greet
  <2>2. /\ sock'[s].uid = c.uid /\ sock'[s].row = c.row /\ sock'[s].todo = c.todo
        /\ sock'[s].granted = c.granted /\ sock'[s].groups_joined = c.groups_joined
    BY <1>1, <2>1 DEF Connection
  <2>3. member'[s] = member[s] /\ c.pc # "dead"
    BY <1>11 DEF Greet
  <2>4. Held(s)' \subseteq Held(s)
    BY <2>2, <2>3 DEF Held
  <2> QED BY <1>4, <2>2, <2>3, <2>4
<1>12. ASSUME Unauthorized(s) PROVE Goal
  <2>1. sock'[s] = NoHandler("closed") /\ member'[s] = {}
    BY <1>1, <1>12 DEF Unauthorized, SockOK, UnusedOK
  <2> QED BY <1>5, <2>1
<1>13. ASSUME Closed(s) PROVE Goal
  <2>1. sock'[s] = NoHandler("closed") /\ member'[s] = member[s] /\ c.pc = "leaving" /\ c.todo = <<>>
    BY <1>1, <1>13 DEF Closed
  <2>2. member[s] = {}
    BY <1>1, <1>2, <2>1 DEF SockOK, LeavingOK
  <2> QED BY <1>5, <2>1, <2>2
<1>14. ASSUME SocketDies(s) PROVE Goal
  <2>1. sock'[s].pc = "dead" /\ sock'[s].uid = None
    BY <1>1, <1>14 DEF SocketDies, NoHandler
  <2> QED BY <2>1 DEF HeldGranted, GrantsKnown
<1>15. ASSUME MembershipExpires(s) PROVE Goal
  <2>1. sock'[s] = [c EXCEPT !.lapsed = c.pc # "dead"] /\ member'[s] = {}
    BY <1>1, <1>15 DEF MembershipExpires
  <2>2. /\ sock'[s].uid = c.uid /\ sock'[s].row = c.row /\ sock'[s].todo = c.todo
        /\ sock'[s].granted = c.granted /\ sock'[s].groups_joined = c.groups_joined /\ sock'[s].pc = c.pc
    BY <1>1, <2>1 DEF Connection
  <2>3. Held(s)' \subseteq Held(s)
    BY <2>1, <2>2 DEF Held
  <2> QED BY <1>4, <2>2, <2>3
<1>16. ASSUME sock' = sock, member' = member PROVE Goal
  BY <1>4, <1>16 DEF Held
<1>17. Goal
  BY <1>6, <1>7, <1>8, <1>9, <1>10, <1>11, <1>12, <1>13, <1>14, <1>15, <1>16
     DEF Handler, Relay, MessageExpires
<1>18. ASSUME NEW t \in Socket, t # s PROVE HeldGranted(t)' /\ GrantsKnown(t)'
  <2>1. HeldGranted(t)'
    BY <1>3, <1>18 DEF FeedInv, HeldGranted, Held, Entitled
  <2>2. GrantsKnown(t)'
    BY <1>3, <1>18 DEF FeedInv, GrantsKnown, accessVars
  <2> QED BY <2>1, <2>2
<1> QED BY <1>17, <1>18 DEF FeedInv

\* Requests that give and take grants only add to what a connection remembers.
LEMMA FeedRemembered ==
    ASSUME IInv, FeedInv, RememberGrants, member' = member
    PROVE  FeedInv'
<1> SUFFICES ASSUME NEW s \in Socket PROVE HeldGranted(s)' /\ GrantsKnown(s)'
  BY DEF FeedInv
<1>1. HeldGranted(s)'
  <2>1. Held(s)' = Held(s)
    BY Remembered DEF Held
  <2>2. \A d \in Devices : Entitled(s, d) => Entitled(s, d)'
    BY Remembered DEF Entitled
  <2> QED BY <2>1, <2>2, Remembered DEF FeedInv, HeldGranted
<1>2. GrantsKnown(s)'
  BY Remembered DEF GrantsKnown
<1> QED BY <1>1, <1>2

\* A connection is only ever in the group of a device that its user may watch, by the
\* row of the handshake and a grant of the time since: for any accounts, devices
\* and clients, and any requests that change roles, tenants and grants meanwhile.
THEOREM DeviceFeedsAreGranted == Spec => []DeviceFeedsGranted
<1>1. Init => FeedInv
  <2> SUFFICES ASSUME Init, NEW s \in Socket PROVE HeldGranted(s) /\ GrantsKnown(s)
    BY DEF FeedInv
  <2>1. sock[s] = NoHandler("unused") /\ member[s] = {}
    BY DEF Init, RealtimeInit
  <2>2. Held(s) = {} /\ sock[s].uid = None
    BY <2>1 DEF NoHandler, Held, Range
  <2> QED BY <2>2 DEF HeldGranted, GrantsKnown
<1>2. IInv /\ FeedInv /\ [Next]_vars => FeedInv'
  <2> SUFFICES ASSUME IInv, FeedInv, [Next]_vars PROVE FeedInv'
    OBVIOUS
  <2>1. ASSUME UNCHANGED <<sock, member, grant>> PROVE FeedInv'
    BY <2>1 DEF FeedInv, HeldGranted, GrantsKnown, Held, Entitled
  <2>2. ASSUME RealtimeNext, UNCHANGED accessVars PROVE FeedInv'
    BY <2>2, HeldStep DEF RealtimeNext
  <2>3. ASSUME NEW w \in Worker,
               EmitStep(w) \/ EmitFails(w)
                 \/ \E a \in Alerts : RaiseNew(w, a) \/ RaiseAgain(w, a) \/ AutoResolve(w, a)
        PROVE  UNCHANGED <<sock, member, grant>>
    BY <2>3 DEF EmitStep, Stamp, Cast, PickTargets, Pushed, Audit, FanSkip, FanInApp, FanOutside,
       Push, EmitFails, RaiseNew, RaiseAgain, AutoResolve, socketVars, accessVars
  <2>4. ASSUME \/ \E t \in Slot : DeliveryStep(t) \/ DeliveryLost(t)
               \/ \E a \in Alerts : CooldownElapses(a)
               \/ \E u \in User, n \in Alerts : Close(u, n)
               \/ \E u \in User, k \in Channel : EditChannel(u, k)
        PROVE  UNCHANGED <<sock, member, grant>>
    BY <2>4 DEF DeliveryStep, Take, Delivered, DeliveryFails, RetryDue, DeliveryLost, CooldownElapses,
       Close, EditChannel, socketVars, accessVars
  <2>5. CASE UNCHANGED vars
    BY <2>1, <2>5 DEF vars, socketVars, accessVars
  <2>6. CASE RememberGrants /\ member' = member
    BY <2>6, FeedRemembered
  <2> QED BY <2>1, <2>2, <2>3, <2>4, <2>5, <2>6 DEF Next
<1>3. FeedInv => DeviceFeedsGranted
  BY DEF FeedInv, HeldGranted, Held, Entitled, DeviceFeedsGranted
<1> QED BY <1>1, <1>2, <1>3, Inductive, PTL DEF Spec

-----------------------------------------------------------------------------
(* Deliveries run out of steps *)

RetriesBounded == \A t \in Slot : task[t].retries <= max_retries

\* What a step can do to a delivery; it is queued without retries.
Delivers(t) ==
    \/ task'[t] = task[t]
    \/ task'[t].pc = "free" /\ task'[t].retries = 0
    \/ task[t].pc = "free" /\ task'[t].retries = 0
    \/ task[t].pc = "queued" /\ task'[t].pc = "sending" /\ task'[t].retries = task[t].retries
    \/ task[t].pc = "waiting" /\ task'[t].pc = "queued" /\ task'[t].retries = task[t].retries
    \/ /\ task[t].pc = "sending" /\ task'[t].pc = "waiting"
       /\ task[t].retries < max_retries /\ task'[t].retries = task[t].retries + 1

LEMMA TaskStep ==
    ASSUME TypeOK, [Next]_vars
    PROVE  \A t \in Slot : Delivers(t)
<1>1. task \in [Slot -> Delivery]
  BY DEF TypeOK, CenterTypeOK
<1>2. ASSUME task' = task PROVE \A t \in Slot : Delivers(t)
  BY <1>2 DEF Delivers
<1>3. ASSUME NEW s \in Slot, NEW d, task' = [task EXCEPT ![s] = d],
             \/ d.pc = "free" /\ d.retries = 0
             \/ task[s].pc = "free" /\ d.retries = 0
             \/ task[s].pc = "queued" /\ d.pc = "sending" /\ d.retries = task[s].retries
             \/ task[s].pc = "waiting" /\ d.pc = "queued" /\ d.retries = task[s].retries
             \/ /\ task[s].pc = "sending" /\ d.pc = "waiting"
                /\ task[s].retries < max_retries /\ d.retries = task[s].retries + 1
      PROVE  \A t \in Slot : Delivers(t)
  <2>1. task'[s] = d /\ \A t \in Slot : t # s => task'[t] = task[t]
    BY <1>1, <1>3
  <2> QED BY <1>3, <2>1 DEF Delivers
<1>4. Free.pc = "free" /\ Free.retries = 0
  BY DEF Free
<1>5. ASSUME NEW w \in Worker, NEW c \in Channel, NEW s \in Slot, FanOutside(w, c, s)
      PROVE  \A t \in Slot : Delivers(t)
  BY <1>3, <1>5 DEF FanOutside
<1>6. ASSUME NEW s \in Slot, Take(s) PROVE \A t \in Slot : Delivers(t)
  <2>1. CASE task[s].channel \in enabled
    <3> DEFINE d == [task[s] EXCEPT !.pc = "sending"]
    <3>1. task' = [task EXCEPT ![s] = d] /\ task[s].pc = "queued"
      BY <1>6, <2>1 DEF Take
    <3>2. d.pc = "sending" /\ d.retries = task[s].retries
      BY <1>1 DEF Delivery
    <3> HIDE DEF d
    <3> QED BY <1>3, <3>1, <3>2
  <2>2. CASE task[s].channel \notin enabled
    <3>1. task' = [task EXCEPT ![s] = Free]
      BY <1>6, <2>2 DEF Take
    <3> QED BY <1>3, <1>4, <3>1
  <2> QED BY <2>1, <2>2
<1>7. ASSUME NEW s \in Slot, Delivered(s) \/ DeliveryLost(s) PROVE \A t \in Slot : Delivers(t)
  BY <1>3, <1>4, <1>7 DEF Delivered, DeliveryLost
<1>8. ASSUME NEW s \in Slot, DeliveryFails(s) PROVE \A t \in Slot : Delivers(t)
  <2>1. CASE task[s].retries < max_retries
    <3> DEFINE d == [task[s] EXCEPT !.pc = "waiting", !.retries = task[s].retries + 1]
    <3>1. task' = [task EXCEPT ![s] = d] /\ task[s].pc = "sending"
      BY <1>8, <2>1 DEF DeliveryFails, Retry
    <3>2. d.pc = "waiting" /\ d.retries = task[s].retries + 1
      BY <1>1 DEF Delivery
    <3> HIDE DEF d
    <3> QED BY <1>3, <2>1, <3>1, <3>2
  <2>2. CASE ~ task[s].retries < max_retries
    <3>1. task' = [task EXCEPT ![s] = Free]
      BY <1>8, <2>2 DEF DeliveryFails, Retry
    <3> QED BY <1>3, <1>4, <3>1
  <2> QED BY <2>1, <2>2
<1>9. ASSUME NEW s \in Slot, RetryDue(s) PROVE \A t \in Slot : Delivers(t)
  <2> DEFINE d == [task[s] EXCEPT !.pc = "queued"]
  <2>1. task' = [task EXCEPT ![s] = d] /\ task[s].pc = "waiting"
    BY <1>9 DEF RetryDue
  <2>2. d.pc = "queued" /\ d.retries = task[s].retries
    BY <1>1 DEF Delivery
  <2> HIDE DEF d
  <2> QED BY <1>3, <2>1, <2>2
<1>10. ASSUME NEW w \in Worker, EmitStep(w) PROVE \A t \in Slot : Delivers(t)
  <2>1. CASE \E c \in Channel, s \in Slot : FanOutside(w, c, s)
    BY <1>5, <2>1
  <2>2. CASE ~ \E c \in Channel, s \in Slot : FanOutside(w, c, s)
    <3>1. task' = task
      BY <1>10, <2>2 DEF EmitStep, Stamp, Cast, PickTargets, Pushed, Audit, FanSkip, FanInApp, Push
    <3> QED BY <1>2, <3>1
  <2> QED BY <2>1, <2>2
<1>11. ASSUME \/ AccessNext /\ RememberGrants /\ UNCHANGED <<member, mail, faults, centerVars>>
              \/ RealtimeNext /\ UNCHANGED <<accessVars, centerVars>>
              \/ \E w \in Worker, a \in Alerts : RaiseNew(w, a) \/ RaiseAgain(w, a) \/ AutoResolve(w, a)
              \/ \E w \in Worker : EmitFails(w)
              \/ \E a \in Alerts : CooldownElapses(a)
              \/ \E u \in User, n \in Alerts : Close(u, n)
              \/ \E u \in User, c \in Channel : EditChannel(u, c)
              \/ UNCHANGED vars
       PROVE  task' = task
  BY <1>11 DEF centerVars, vars, RaiseNew, RaiseAgain, AutoResolve, EmitFails, CooldownElapses, Close,
     EditChannel
<1>12. \/ task' = task
       \/ \E w \in Worker : EmitStep(w)
       \/ \E s \in Slot : DeliveryStep(s) \/ DeliveryLost(s)
  BY <1>11 DEF Next
<1>13. ASSUME NEW s \in Slot, DeliveryStep(s) \/ DeliveryLost(s) PROVE \A t \in Slot : Delivers(t)
  BY <1>6, <1>7, <1>8, <1>9, <1>13 DEF DeliveryStep
<1> QED BY <1>2, <1>10, <1>12, <1>13

\* No delivery is retried more than max_retries times.
LEMMA RetriesStep == ASSUME TypeOK, RetriesBounded, [Next]_vars PROVE RetriesBounded'
<1> SUFFICES ASSUME NEW t \in Slot PROVE task'[t].retries <= max_retries
  BY DEF RetriesBounded
<1>1. Delivers(t)
  BY TaskStep
<1>2. task[t].retries \in Nat /\ task[t].retries <= max_retries
  BY DEF TypeOK, CenterTypeOK, Delivery, RetriesBounded
<1>3. \/ task'[t].retries \in {0, task[t].retries}
      \/ task'[t].retries = task[t].retries + 1 /\ task[t].retries < max_retries
  BY <1>1 DEF Delivers
<1> QED BY <1>2, <1>3, AlertAssumption

\* A bound on the steps delivery t can still take.
Left(t) ==
    LET tries == 3 * (max_retries - task[t].retries) IN
    CASE task[t].pc = "free" -> 0
      [] task[t].pc = "sending" -> tries + 1
      [] task[t].pc = "queued" -> tries + 2
      [] task[t].pc = "waiting" -> tries + 3

\* Whatever happens to a delivery under way takes steps away from it.
LEMMA LeftShrinks ==
    ASSUME TypeOK, RetriesBounded, [Next]_vars, NEW t \in Slot,
           task[t].pc # "free", task'[t] # task[t]
    PROVE  Left(t)' \in 0..(Left(t) - 1)
<1> DEFINE r == task[t].retries
           tries == 3 * (max_retries - r)
<1>1. r \in Nat /\ r <= max_retries /\ max_retries \in Nat /\ tries \in Nat
  BY AlertAssumption DEF TypeOK, CenterTypeOK, Delivery, RetriesBounded
<1>2. task[t].pc \in {"queued", "sending", "waiting"}
  BY DEF TypeOK, CenterTypeOK, Delivery
<1>3. Delivers(t)
  BY TaskStep
<1>4. /\ task[t].pc = "queued" => Left(t) = tries + 2
      /\ task[t].pc = "sending" => Left(t) = tries + 1
      /\ task[t].pc = "waiting" => Left(t) = tries + 3
  BY DEF Left
<1>5. CASE task'[t].pc = "free"
  <2>1. Left(t)' = 0
    BY <1>5 DEF Left
  <2> HIDE DEF tries
  <2>2. Left(t) \in Nat /\ Left(t) > 0
    BY <1>1, <1>2, <1>4
  <2> QED BY <2>1, <2>2
<1>6. CASE task[t].pc = "queued" /\ task'[t].pc = "sending" /\ task'[t].retries = r
  <2>1. Left(t)' = tries + 1
    BY <1>6 DEF Left
  <2> HIDE DEF tries
  <2> QED BY <1>1, <1>4, <1>6, <2>1
<1>7. CASE task[t].pc = "waiting" /\ task'[t].pc = "queued" /\ task'[t].retries = r
  <2>1. Left(t)' = tries + 2
    BY <1>7 DEF Left
  <2> HIDE DEF tries
  <2> QED BY <1>1, <1>4, <1>7, <2>1
<1>8. CASE /\ task[t].pc = "sending" /\ task'[t].pc = "waiting"
           /\ r < max_retries /\ task'[t].retries = r + 1
  <2>1. Left(t)' = 3 * (max_retries - (r + 1)) + 3
    BY <1>8 DEF Left
  <2>2. 3 * (max_retries - (r + 1)) + 3 = tries
    BY <1>1
  <2> HIDE DEF tries
  <2> QED BY <1>1, <1>4, <1>8, <2>1, <2>2
<1> QED BY <1>2, <1>3, <1>5, <1>6, <1>7, <1>8 DEF Delivers

\* Why deliveries end: whatever happens to one under way, an answer, an error, a
\* retry, a lost worker or a channel switched off, leaves it fewer steps.
DeliveryShrinks ==
    [][\A t \in Slot : task[t].pc # "free" /\ task'[t] # task[t] => Left(t)' \in 0..(Left(t) - 1)]_vars

\* Every delivery runs out of steps, for any number of channels, slots, retries
\* and failures: the safety part of DeliveryEnds.
THEOREM DeliveriesShrink == Spec => DeliveryShrinks
<1>1. Init => RetriesBounded
  BY AlertAssumption DEF Init, RetriesBounded, Free
<1>2. TypeOK /\ RetriesBounded /\ [Next]_vars => RetriesBounded'
  BY RetriesStep
<1>3. TypeOK /\ RetriesBounded /\ [Next]_vars
      => [\A t \in Slot : task[t].pc # "free" /\ task'[t] # task[t] => Left(t)' \in 0..(Left(t) - 1)]_vars
  BY LeftShrinks
<1> QED BY <1>1, <1>2, <1>3, TypeCorrect, PTL DEF Spec, DeliveryShrinks

-----------------------------------------------------------------------------
(* NotificationCenter implements AlertSpec *)

\* A worker in _emit works for an alert that was raised.
EmitsRaised == \A w \in Worker : work[w].pc # "idle" => alert[work[w].alert].status # "none"

\* Alerts do not disappear, and a worker takes up an alert it has just raised
\* or found.
LEMMA EmitsRaisedStep == ASSUME IInv, EmitsRaised, [Next]_vars PROVE EmitsRaised'
<1>1. /\ alert \in [Alerts -> Alert] /\ work \in [Worker -> Emit]
      /\ \A w \in Worker : work[w].pc # "idle" => work[w].alert \in Alerts
  BY DEF IInv, TypeOK, CenterTypeOK, StoreOK, EmitOK
<1>2. \A a \in Alerts : alert[a].status # "none" => alert'[a].status # "none"
  <2>1. ASSUME NEW w \in Worker, NEW b \in Alerts, RaiseNew(w, b) \/ AutoResolve(w, b)
        PROVE  \A a \in Alerts : alert[a].status # "none" => alert'[a].status # "none"
    BY <1>1, <2>1 DEF RaiseNew, AutoResolve, Alert
  <2>2. ASSUME NEW w \in Worker, Stamp(w)
        PROVE  \A a \in Alerts : alert[a].status # "none" => alert'[a].status # "none"
    BY <1>1, <2>2 DEF Stamp, Alert
  <2>3. ASSUME NEW b \in Alerts, CooldownElapses(b) \/ \E u \in User : Close(u, b)
        PROVE  \A a \in Alerts : alert[a].status # "none" => alert'[a].status # "none"
    BY <1>1, <2>3 DEF CooldownElapses, Close, Alert
  <2>4. CASE alert' = alert
    BY <2>4
  <2>5. ASSUME NEW w \in Worker, EmitStep(w) \/ EmitFails(w) \/ \E a \in Alerts : RaiseAgain(w, a)
        PROVE  Stamp(w) \/ alert' = alert
    BY <2>5 DEF EmitStep, Cast, PickTargets, Pushed, Audit, FanSkip, FanInApp, FanOutside, Push,
       EmitFails, RaiseAgain
  <2>6. ASSUME NEW t \in Slot, DeliveryStep(t) \/ DeliveryLost(t) PROVE alert' = alert
    BY <2>6 DEF DeliveryStep, Take, Delivered, DeliveryFails, RetryDue, DeliveryLost
  <2> QED BY <2>1, <2>2, <2>3, <2>4, <2>5, <2>6 DEF Next, EditChannel, vars, centerVars
<1>3. ASSUME NEW w \in Worker, work'[w].pc # "idle"
      PROVE  alert'[work'[w].alert].status # "none"
  <2>1. CASE work[w].pc # "idle" /\ work'[w].alert = work[w].alert
    BY <1>1, <1>2, <2>1 DEF EmitsRaised
  <2>2. ASSUME NEW a \in Alerts, RaiseNew(w, a) PROVE alert'[work'[w].alert].status # "none"
    <3>1. work'[w] = [Idle EXCEPT !.pc = "stamp", !.alert = a]
      BY <1>1, <2>2 DEF RaiseNew
    <3>2. work'[w].alert = a
      BY <3>1 DEF Idle
    <3> QED BY <1>1, <2>2, <3>2 DEF RaiseNew
  <2>3. ASSUME NEW a \in Alerts, RaiseAgain(w, a) PROVE alert'[work'[w].alert].status # "none"
    <3>1. work'[w] = [Idle EXCEPT !.pc = "stamp", !.alert = a]
      BY <1>1, <2>3 DEF RaiseAgain
    <3>2. work'[w].alert = a
      BY <3>1 DEF Idle
    <3> QED BY <2>3, <3>2 DEF RaiseAgain, IsOpen
  <2>4. work[w] \in Emit
    BY <1>1
  <2>5. ASSUME EmitStep(w) PROVE work'[w].alert = work[w].alert \/ work'[w] = Idle
    <3>1. CASE Stamp(w) \/ Cast(w) \/ PickTargets(w) \/ Pushed(w) \/ Audit(w)
      <4>1. \/ \E pc \in {"cast", "targets", "fan"} : work'[w] = [work[w] EXCEPT !.pc = pc]
            \/ work'[w] = [work[w] EXCEPT !.pc = "fan", !.channels = Targets]
            \/ work'[w] = Idle
        BY <1>1, <3>1 DEF Stamp, Cast, PickTargets, Pushed, Audit
      <4> QED BY <2>4, <4>1 DEF Emit
    <3>2. ASSUME NEW c \in Channel, FanSkip(w, c) \/ \E t \in Slot : FanOutside(w, c, t)
          PROVE  work'[w].alert = work[w].alert
      BY <1>1, <2>4, <3>2 DEF FanSkip, FanOutside, Emit
    <3>3. ASSUME NEW c \in Channel, FanInApp(w, c) PROVE work'[w].alert = work[w].alert
      <4> DEFINE r == {u \in User : Recipient(u)}
      <4>1. work'[w] = [work[w] EXCEPT !.pc = "push", !.channels = work[w].channels \ {c},
                                       !.recipients = r]
        BY <1>1, <3>3 DEF FanInApp
      <4> HIDE DEF r
      <4> QED BY <2>4, <4>1 DEF Emit
    <3>4. ASSUME NEW u \in User, Push(w, u) PROVE work'[w].alert = work[w].alert
      BY <1>1, <2>4, <3>4 DEF Push, Emit
    <3> QED BY <2>5, <3>1, <3>2, <3>3, <3>4 DEF EmitStep
  <2>6. ASSUME EmitStep(w) PROVE work[w].pc # "idle"
    BY <2>6 DEF EmitStep, Stamp, Cast, PickTargets, Pushed, Audit, FanSkip, FanInApp,
       FanOutside, Push, At
  <2>7. ASSUME EmitFails(w) PROVE work'[w] = Idle
    BY <1>1, <2>7 DEF EmitFails
  <2>8. ASSUME NEW v \in Worker, v # w,
               EmitStep(v) \/ EmitFails(v) \/ \E a \in Alerts : RaiseNew(v, a) \/ RaiseAgain(v, a)
        PROVE  work'[w] = work[w]
    BY <1>1, <2>8 DEF EmitStep, Stamp, Cast, PickTargets, Pushed, Audit, FanSkip, FanInApp,
       FanOutside, Push, EmitFails, RaiseNew, RaiseAgain
  <2>9. CASE \E v \in Worker :
              EmitStep(v) \/ EmitFails(v) \/ \E a \in Alerts : RaiseNew(v, a) \/ RaiseAgain(v, a)
    <3>1. Idle.pc = "idle"
      BY DEF Idle
    <3>2. PICK v \in Worker :
              EmitStep(v) \/ EmitFails(v) \/ \E a \in Alerts : RaiseNew(v, a) \/ RaiseAgain(v, a)
      BY <2>9
    <3>3. CASE v = w
      BY <1>3, <2>1, <2>2, <2>3, <2>5, <2>6, <2>7, <3>1, <3>2, <3>3
    <3>4. CASE v # w
      BY <1>3, <2>1, <2>8, <3>2, <3>4
    <3> QED BY <3>3, <3>4
  <2>10. CASE work' = work
    BY <1>3, <2>1, <2>10
  <2> QED BY <2>9, <2>10 DEF Next, AutoResolve, CooldownElapses, DeliveryStep, Take, Delivered,
        DeliveryFails, RetryDue, DeliveryLost, Close, EditChannel, vars, centerVars
<1> QED BY <1>3 DEF EmitsRaised

\* Steps that leave rows and inboxes alone change nothing abstract.
LEMMA Stutter ==
    ASSUME \A a \in Alerts : alert'[a].status = alert[a].status, inbox' = inbox
    PROVE  UNCHANGED Abs!vars
<1>1. absLife' = absLife /\ absKey' = absKey /\ absTold' = absTold
  BY DEF absLife, absKey, absTold
<1> QED BY <1>1 DEF Abs!vars

\* Raising an alert is Raise: the rule has no other open alert.
LEMMA RaiseRefines ==
    ASSUME IInv, NEW w \in Worker, NEW a \in Alerts, RaiseNew(w, a)
    PROVE  Abs!Next
<1>1. alert \in [Alerts -> Alert]
  BY DEF IInv, TypeOK, CenterTypeOK
<1>2. Abs!OpenFor("rule") = {}
  BY DEF RaiseNew, IsOpen, Abs!OpenFor, absLife
<1>3. absLife[a] = "none" /\ absLife' = [absLife EXCEPT ![a] = "open"]
  BY <1>1 DEF RaiseNew, absLife
<1>4. absKey' = [absKey EXCEPT ![a] = "rule"]
  BY <1>1 DEF RaiseNew, absKey
<1>5. absTold' = absTold
  BY DEF RaiseNew, absTold
<1>6. Abs!Raise(a, "rule")
  BY <1>2, <1>3, <1>4, <1>5 DEF Abs!Raise
<1> QED BY <1>6 DEF Abs!Next

\* _auto_resolve and the operators' Close are Close, or change nothing.
LEMMA CloseRefines ==
    ASSUME IInv, NEW a \in Alerts, inbox' = inbox, alert[a].status # "none",
           alert' = [alert EXCEPT ![a].status = "closed"]
    PROVE  Abs!Next
<1> DEFINE S == {b \in {a} : alert[b].status = "open"}
<1>1. alert \in [Alerts -> Alert] /\ alert[a].status \in {"open", "closed"}
  BY DEF IInv, TypeOK, CenterTypeOK, Alert, Status
<1>2. absLife' = [b \in Alerts |-> IF b \in S THEN "closed" ELSE absLife[b]]
  BY <1>1 DEF absLife, Alert
<1>3. absKey' = absKey /\ absTold' = absTold
  BY <1>1 DEF absKey, absTold, Alert
<1>4. \A b \in S : absLife[b] = "open"
  BY DEF absLife
<1>5. S \in SUBSET Alerts
  OBVIOUS
<1> HIDE DEF S
<1>6. Abs!Close(S)
  BY <1>2, <1>3, <1>4 DEF Abs!Close
<1> QED BY <1>5, <1>6 DEF Abs!Next

\* bulk_create of the Notification rows is Tell, or changes nothing when nobody
\* is a recipient.
LEMMA FanInAppRefines ==
    ASSUME IInv, EmitsRaised, NEW w \in Worker, NEW c \in Channel, FanInApp(w, c)
    PROVE  Abs!Next \/ UNCHANGED Abs!vars
<1> DEFINE a == work[w].alert
           r == {u \in User : Recipient(u)}
<1>1. a \in Alerts /\ alert[a].status # "none"
  BY DEF FanInApp, At, EmitsRaised, IInv, StoreOK, EmitOK
<1>2. inbox' = [u \in User |-> IF u \in r THEN inbox[u] \union {a} ELSE inbox[u]] /\ alert' = alert
  BY DEF FanInApp
<1>3. absLife' = absLife /\ absKey' = absKey
  BY <1>2 DEF absLife, absKey
<1> HIDE DEF a
<1>4. CASE r = {}
  <2>1. absTold' = absTold
    BY <1>2, <1>4 DEF absTold, IInv, TypeOK, CenterTypeOK
  <2> QED BY <1>3, <2>1 DEF Abs!vars
<1>5. CASE r # {}
  <2>1. absTold' = absTold \union {a}
    BY <1>2, <1>5 DEF absTold
  <2>2. absLife[a] # "none"
    BY <1>1 DEF absLife
  <2>3. Abs!Tell(a)
    BY <1>3, <2>1, <2>2 DEF Abs!Tell
  <2> QED BY <1>1, <2>3 DEF Abs!Next
<1> QED BY <1>4, <1>5

\* Every step is one of AlertSpec or changes nothing it knows of.
LEMMA StepRefines == ASSUME IInv, EmitsRaised, [Next]_vars PROVE [Abs!Next]_(Abs!vars)
<1> DEFINE Goal == [Abs!Next]_(Abs!vars)
<1>0. (Abs!Next => Goal) /\ (UNCHANGED Abs!vars => Goal)
  OBVIOUS
<1> HIDE DEF Goal
<1>1. alert \in [Alerts -> Alert] /\ \A w \in Worker : work[w].pc # "idle" => work[w].alert \in Alerts
  BY DEF IInv, TypeOK, CenterTypeOK, StoreOK, EmitOK
<1>2. ASSUME NEW w \in Worker, NEW a \in Alerts, RaiseNew(w, a) PROVE Goal
  BY <1>0, <1>2, RaiseRefines
<1>3. ASSUME NEW w \in Worker, NEW a \in Alerts, AutoResolve(w, a) PROVE Goal
  <2>1. /\ alert[a].status # "none" /\ alert' = [alert EXCEPT ![a].status = "closed"]
        /\ inbox' = inbox
    BY <1>3 DEF AutoResolve, IsOpen
  <2> QED BY <1>0, <2>1, CloseRefines
<1>4. ASSUME NEW u \in User, NEW a \in Alerts, Close(u, a) PROVE Goal
  <2>1. /\ alert[a].status # "none" /\ alert' = [alert EXCEPT ![a].status = "closed"]
        /\ inbox' = inbox
    BY <1>4 DEF Close
  <2> QED BY <1>0, <2>1, CloseRefines
<1>5. ASSUME NEW w \in Worker, NEW c \in Channel, FanInApp(w, c) PROVE Goal
  BY <1>0, <1>5, FanInAppRefines
<1>6. ASSUME NEW w \in Worker, Stamp(w) PROVE Goal
  <2>1. \A a \in Alerts : alert'[a].status = alert[a].status
    BY <1>1, <1>6 DEF Stamp, At, Alert
  <2>2. inbox' = inbox
    BY <1>6 DEF Stamp
  <2> QED BY <1>0, <2>1, <2>2, Stutter
<1>7. ASSUME NEW a \in Alerts, CooldownElapses(a) PROVE Goal
  <2>1. \A b \in Alerts : alert'[b].status = alert[b].status
    BY <1>1, <1>7 DEF CooldownElapses, Alert
  <2>2. inbox' = inbox
    BY <1>7 DEF CooldownElapses
  <2> QED BY <1>0, <2>1, <2>2, Stutter
<1>8. ASSUME alert' = alert, inbox' = inbox PROVE Goal
  BY <1>0, <1>8, Stutter
<1>9. ASSUME NEW w \in Worker, EmitStep(w) PROVE Goal
  <2>1. CASE \/ Cast(w) \/ PickTargets(w) \/ Pushed(w) \/ Audit(w)
             \/ \E c \in Channel : FanSkip(w, c) \/ \E t \in Slot : FanOutside(w, c, t)
             \/ \E u \in User : Push(w, u)
    <3>1. alert' = alert /\ inbox' = inbox
      BY <2>1 DEF Cast, PickTargets, Pushed, Audit, FanSkip, FanOutside, Push
    <3> QED BY <1>8, <3>1
  <2> QED BY <1>5, <1>6, <1>9, <2>1 DEF EmitStep
<1>10. ASSUME NEW w \in Worker, NEW a \in Alerts, RaiseAgain(w, a) PROVE Goal
  <2>1. alert' = alert /\ inbox' = inbox
    BY <1>10 DEF RaiseAgain
  <2> QED BY <1>8, <2>1
<1>11. ASSUME NEW w \in Worker, EmitFails(w) PROVE Goal
  <2>1. alert' = alert /\ inbox' = inbox
    BY <1>11 DEF EmitFails
  <2> QED BY <1>8, <2>1
<1>12. ASSUME \/ \E t \in Slot : DeliveryStep(t) \/ DeliveryLost(t)
              \/ \E u \in User, c \in Channel : EditChannel(u, c)
       PROVE  Goal
  <2>1. alert' = alert /\ inbox' = inbox
    BY <1>12 DEF DeliveryStep, Take, Delivered, DeliveryFails, RetryDue, DeliveryLost, EditChannel
  <2> QED BY <1>8, <2>1
<1>13. ASSUME UNCHANGED centerVars \/ UNCHANGED vars PROVE Goal
  <2>1. alert' = alert /\ inbox' = inbox
    BY <1>13 DEF vars, centerVars
  <2> QED BY <1>8, <2>1
<1>14. Goal
  BY <1>2, <1>3, <1>4, <1>7, <1>9, <1>10, <1>11, <1>12, <1>13 DEF Next
<1> QED BY <1>14 DEF Goal

\* No alert, no inbox.
LEMMA InitRefines == Init => Abs!Init
<1> SUFFICES ASSUME Init PROVE Abs!Init
  OBVIOUS
<1>1. absLife = [a \in Alerts |-> "none"] /\ absKey = [a \in Alerts |-> None] /\ absTold = {}
  BY DEF Init, absLife, absKey, absTold
<1> QED BY <1>1 DEF Abs!Init

\* The emission of alerts with its inboxes, among operators, account changes and
\* failures, implements the abstract alerts.
THEOREM Refinement == Spec => ImplementsAlertSpec
<1>1. Init => EmitsRaised
  BY DEF Init, EmitsRaised, Idle
<1>2. IInv /\ EmitsRaised /\ [Next]_vars => EmitsRaised'
  BY EmitsRaisedStep
<1>3. IInv /\ EmitsRaised /\ [Next]_vars => [Abs!Next]_(Abs!vars)
  BY StepRefines
<1> QED BY <1>1, <1>2, <1>3, InitRefines, Inductive, PTL DEF Spec, ImplementsAlertSpec, Abs!Spec
=============================================================================
