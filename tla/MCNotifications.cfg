\* One user with two tabs and another user without, two worker processes,
\* two announcements at once, under the fairness of the event loops.
CONSTANTS
  ann = ann
  User = {ann, bob}
  Worker = {w1, w2}
  Socket = {tab1, tab2}
  SocketUser <- OneUsersTabs
  Announcement = {a1, a2}
  None = None
SPECIFICATION FairSpec
CHECK_DEADLOCK FALSE
INVARIANTS NotificationsTypeOK PushIsStored PushReachesAll OnlineAreRegistered
PROPERTIES LeaversAreForgotten DeadSocketsAreSurvived
