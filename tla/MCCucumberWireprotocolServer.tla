--------------------- MODULE MCCucumberWireprotocolServer ---------------------
EXTENDS CucumberWireprotocolServer

(* One step of each kind, and two that launch, for different ids.          *)
MCInvoked ==
    [op : {"start"}, id : Ids]
    \cup [op : {"attach", "select", "plugin", "nocommand", "wrongargs"}, id : {DefaultId}]
=============================================================================
