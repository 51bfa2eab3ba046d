------------------------------ MODULE MCDomainTasks ------------------------------
(* The tasks of a run under each Domain the registry knows (builtin_domains.py),*)
(* Workspace Tasks in both of its target scopes.                                *)
EXTENDS DomainTasks

InContacts == INSTANCE MCContactsTasks
InMobile == INSTANCE MCMobileTasks
InWorkspace == INSTANCE MCWorkspaceTasks WITH TargetScope <- "representative"
InAllUnique == INSTANCE MCWorkspaceTasks WITH TargetScope <- "all_unique"

MCSources(d) ==
    CASE d = "contacts" -> InContacts!MCSource
      [] d = "mobile" -> InMobile!MCSource
      [] d = "workspace" -> InWorkspace!MCSource
      [] d = "all_unique" -> InAllUnique!MCSource
MCParse(d, bytes) ==
    CASE d = "contacts" -> InContacts!Domain!Parse(bytes)
      [] d = "mobile" -> InMobile!Domain!Parse(bytes)
      [] d = "workspace" -> InWorkspace!Domain!Parse(bytes)
      [] d = "all_unique" -> InAllUnique!Domain!Parse(bytes)
MCFreeze(d, state) ==
    CASE d = "contacts" -> InContacts!Domain!Freeze(state)
      [] d = "mobile" -> InMobile!Domain!Freeze(state)
      [] d = "workspace" -> InWorkspace!Domain!Freeze(state)
      [] d = "all_unique" -> InAllUnique!Domain!Freeze(state)
MCReopen(d, snapshot) ==
    CASE d = "contacts" -> InContacts!Domain!Reopen(snapshot)
      [] d = "mobile" -> InMobile!Domain!Reopen(snapshot)
      [] d = "workspace" -> InWorkspace!Domain!Reopen(snapshot)
      [] d = "all_unique" -> InAllUnique!Domain!Reopen(snapshot)
MCSlots(d, state) ==
    CASE d = "contacts" -> InContacts!Domain!Slots(state)
      [] d = "mobile" -> InMobile!Domain!Slots(state)
      [] d = "workspace" -> InWorkspace!Domain!Slots(state)
      [] d = "all_unique" -> InAllUnique!Domain!Slots(state)
MCCapacity(d, state) ==
    CASE d = "contacts" -> InContacts!Domain!Capacity(state)
      [] d = "mobile" -> InMobile!Domain!Capacity(state)
      [] d = "workspace" -> InWorkspace!Domain!Capacity(state)
      [] d = "all_unique" -> InAllUnique!Domain!Capacity(state)
MCSlot(d, state, id) ==
    CASE d = "contacts" -> InContacts!Domain!SlotWithId(state, id)
      [] d = "mobile" -> InMobile!Domain!SlotWithId(state, id)
      [] d = "workspace" -> InWorkspace!Domain!SlotWithId(state, id)
      [] d = "all_unique" -> InAllUnique!Domain!SlotWithId(state, id)
MCPrompt(d, state, slot) ==
    CASE d = "contacts" -> InContacts!Domain!Prompted(state, slot)
      [] d = "mobile" -> InMobile!Domain!Prompted(state, slot)
      [] d = "workspace" -> InWorkspace!Domain!Prompted(state, slot)
      [] d = "all_unique" -> InAllUnique!Domain!Prompted(state, slot)
MCProposals(d, state, slot) ==
    CASE d = "contacts" -> InContacts!MCProposals(state, slot)
      [] d = "mobile" -> InMobile!MCProposals(state, slot)
      [] d = "workspace" -> InWorkspace!MCProposals(state, slot)
      [] d = "all_unique" -> InAllUnique!MCProposals(state, slot)
MCFreeFields(d) ==
    CASE d = "contacts" -> InContacts!MCFree
      [] d = "mobile" -> InMobile!MCFree
      [] d = "workspace" -> InWorkspace!MCFree
      [] d = "all_unique" -> InAllUnique!MCFree
MCLosesQuery(d, state) ==
    d \in {"workspace", "all_unique"} /\ \E id \in DOMAIN state : state[id].query = ""
MCCompile(d, state, id, proposal) ==
    CASE d = "contacts" -> InContacts!Domain!Compile(state, id, proposal)
      [] d = "mobile" -> InMobile!Domain!Compile(state, id, proposal)
      [] d = "workspace" -> InWorkspace!Domain!Compile(state, id, proposal)
      [] d = "all_unique" -> InAllUnique!Domain!Compile(state, id, proposal)
MCKey(d, task) ==
    CASE d = "contacts" -> InContacts!Domain!SemanticKey(task)
      [] d = "mobile" -> InMobile!Domain!SemanticKey(task)
      [] d = "workspace" -> InWorkspace!Domain!SemanticKey(task)
      [] d = "all_unique" -> InAllUnique!Domain!SemanticKey(task)
MCRestore(d, task, key) ==
    CASE d = "contacts" -> InContacts!Domain!Restore(task, key)
      [] d = "mobile" -> InMobile!Domain!Restore(task, key)
      [] d = "workspace" -> InWorkspace!Domain!Restore(task, key)
      [] d = "all_unique" -> InAllUnique!Domain!Restore(task, key)
MCTampered(d, task) ==
    CASE d = "contacts" -> InContacts!MCTampered(task)
      [] d = "mobile" -> InMobile!MCTampered(task)
      [] d = "workspace" -> InWorkspace!MCTampered(task)
      [] d = "all_unique" -> InAllUnique!MCTampered(task)
====================================================================================
