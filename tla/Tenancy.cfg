SPECIFICATION Spec
CONSTANTS
    ann = ann
    bob = bob
    acme = acme
    umbra = umbra
    arm = arm
    leg = leg
    app = app
    hook = hook
    text = text
    None = None
    NoDevice = NoDevice
    User = {ann, bob}
    Organization = {acme, umbra}
    Devices = {arm, leg}
    DeviceOrg <- MCDeviceOrg
    UserRows <- MCUserRows
    Founders <- OutsiderFounders
    FirstRow <- OutsiderRow
    FirstGrant <- OutsiderGrant
    MaxEdits = 1
    Socket = {s1}
    Feeds <- MCFeeds
    Alerts = {1}
    Capacity = 1
    MaxFaults = 1
    Worker = {w1}
    AlertOrg = acme
    Rank = 2
    Channel = {app, hook, text}
    ChannelRow <- MCChannelRow
    NotifySets <- MCNotifySets
    Slot = {t1}
    max_retries = 1
INVARIANT AlertsStayInTenant
