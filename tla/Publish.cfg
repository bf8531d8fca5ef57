SPECIFICATION PublishSpec
CONSTANTS
    MaxLines = 3
    RequestedRefs = {"journal", "other"}
    HostFaults = {"crash", "commit_fails", "push_fails", "answer_lost", "build_fails",
                  "deploy_fails", "probe_fails", "promote_fails", "rollback_fails"}
CHECK_DEADLOCK FALSE
INVARIANTS NoFalsePush RecordMatchesAlias AliasServesProbed
PROPERTIES WithdrawnStaysDown JournalIsPushed
