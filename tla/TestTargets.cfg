\* Eight URLs of three databases on two servers.
SPECIFICATION Spec
CONSTANTS
  Urls <- MCUrls
  Server <- MCServer
  Loopback <- MCLoopback
  MentionPooler <- MCMentionPooler
  Environments = {"local", "production"}
  NotRunning = NotRunning
INVARIANTS
  TypeOK
  RoundTripSparesTheApplication
