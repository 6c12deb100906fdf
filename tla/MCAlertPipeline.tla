---------------------------- MODULE MCAlertPipeline ----------------------------
(***************************************************************************)
(* A small instance of AlertPipeline for TLC: a port scan of two ports,    *)
(* and a remote list that raises an alert for each packet of one shape.    *)
(***************************************************************************)
EXTENDS AlertPipeline

CONSTANTS port_scan, tor_exit, syn, probe, src, laptop

MCChain       == <<port_scan, tor_exit>>
MCThreshold   == [d \in {port_scan, tor_exit} |-> IF d = port_scan THEN 2 ELSE 1]
MCWindow      == [d \in {port_scan, tor_exit} |-> 1]
MCAlertWindow == [d \in {tor_exit} |-> 0]
MCWatched     == [d \in {port_scan, tor_exit} |->
                    IF d = port_scan THEN {syn, probe} ELSE {probe}]
MCKeyOf       == [s \in {syn, probe} |-> src]
MCPort        == [s \in {syn, probe} |-> IF s = syn THEN 1 ELSE 2]
MCShows       == [s \in {syn, probe} |-> IF s = syn THEN {laptop} ELSE {}]
MCHandlers    == <<"ntfy", "event_store">>
MCMarks       == 1..2
MCEpoch       == 0 - 1
===============================================================================
