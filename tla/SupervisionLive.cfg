\* One session, two escalations, and anything going wrong once, a crash of the
\* master included.
CONSTANTS
  Sessions = {s1}
  MaxIds = 2
  MaxJobs = 2
  MaxFaults = 1
  Faults = {"slow", "pane", "crash"}
SPECIFICATION FairSpec
PROPERTIES EscalationsSettle MootEntriesLeave
