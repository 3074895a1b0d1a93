---------------------------- MODULE MCSinkDelivery ----------------------------
(* Instances of SinkDelivery: executions of a mail of two tickets, of a report  *)
(* and of a mail to an empty distribution list, over two days.                  *)
EXTENDS SinkDelivery

MCKind   == [k \in Sinks |-> IF k = "pdf" THEN "file" ELSE "email"]
MCBatch  == [k \in Sinks |-> CASE k = "mail" -> {"one", "two"} [] k = "pdf" -> {"one"} [] k = "empty" -> {}]
TwoDays  == [i \in 0..Horizon |-> i \div 2]

Mixed == [Sends -> Sinks]
Mails == {[a \in Sends |-> "mail"]}

\* Each hazard alone, and those that interact.
AllWeathers ==
    {{}} \cup {{h} : h \in Hazards} \cup
    {{"cancel", "crash", "twins"}, {"lost", "inactive"}}
===============================================================================
