-------------------------- MODULE MCEventDispatch --------------------------
(* Instances of EventDispatch for TLC.  Events are their own addresses.    *)
EXTENDS EventDispatch

\* The two priorities of topics.hpp, and one between them so that the stack of
\* interrupted handlers can grow beyond one.
MCTopics == {"EVENT_HANDLED", "BETWEEN", "TEXT_INPUT"}
MCPriority == [EVENT_HANDLED |-> 0, BETWEEN |-> 5, TEXT_INPUT |-> 10]
MCAddr == [e \in Events |-> e]

\* Text input at the lowest and the highest address.
MixedTopicOf ==
  [e \in Events |-> CASE e = 2 -> "EVENT_HANDLED"
                      [] e = 3 -> "BETWEEN"
                      [] OTHER -> "TEXT_INPUT"]
\* A high priority event whose address is below two low priority ones.
LowAboveTopicOf ==
  [e \in Events |-> IF e = 1 THEN "TEXT_INPUT" ELSE "EVENT_HANDLED"]
\* Only text input, as in the program without plugins.
TextTopicOf == [e \in Events |-> "TEXT_INPUT"]
=============================================================================
