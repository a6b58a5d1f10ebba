SPECIFICATION FairSpec
CONSTANTS
  h1 = h1
  h2 = h2
  alice = alice
  bob = bob
  once = once
  None = None
  Drivers = {"paramiko", "netmiko"}
  Args = {alice, bob, once}
  KeepArgs = {alice, bob}
  HostOf <- TwoDevices
  DeepEvery = 2
  MaxJobs = 3
  MaxFaults = 1
CHECK_DEADLOCK FALSE
INVARIANTS
  TypeOK
  ChannelExclusive
  SessionFitsJob
  NoOrphanSession
  PersistedIsWatched
PROPERTY DeadSessionGone
