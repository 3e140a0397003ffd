------------------------------ MODULE FlowDraft ------------------------------
(* The draft of one flow as the API keeps it: resource_handlers.go with       *)
(* UpdateFlow of the stores. Every write is a compare-and-swap on the ETag,   *)
(* which is a checksum of the definition and not a counter: a definition that *)
(* comes back brings its ETag back with it.                                   *)
CONSTANT Definitions

VARIABLES
  draft,      \* the definition stored
  versions    \* the definitions published

\* SHA-256 of the definition: definitions that differ have ETags that differ.
ETag(d) == d

\* The writes of the editor, on condition that If-Match is the ETag of the draft.
Current(ifMatch) == ifMatch = ETag(draft)
UpdateFlow(d, ifMatch) ==
  /\ Current(ifMatch)
  /\ draft' = d
  /\ UNCHANGED versions

ReplaceFlowDraft(d, ifMatch) == d \in Definitions /\ UpdateFlow(d, ifMatch)
RestoreFlowDraft(v, ifMatch) == v \in versions /\ UpdateFlow(v, ifMatch)
\* The handler reads the flow once: what it compares is what it publishes.
PublishVersion(ifMatch) ==
  /\ Current(ifMatch)
  /\ versions' = versions \cup {draft}
  /\ UNCHANGED draft

PreconditionFailed(ifMatch) == ~Current(ifMatch) /\ UNCHANGED <<draft, versions>>

\* Somebody else's write: a PUT based on the draft as it is, or patchFlow, which expects the
\* ETag it has read. One that lost a race changes nothing.
ReplacedElsewhere(d) == d # draft /\ ReplaceFlowDraft(d, ETag(draft))
===============================================================================
