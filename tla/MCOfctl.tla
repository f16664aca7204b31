------------------------------ MODULE MCOfctl ------------------------------
(* An instance of Ofctl for TLC: two connections of one switch.             *)
EXTENDS Ofctl

CONSTANTS c1, c2, d1

MCIdOf == [c \in Conns |-> d1]
MCAsked == [conn : {c1}, kind : {"barrier"}, cls : {None}, multi : {FALSE}]
           \cup [conn : Conns \ {c1}, kind : {"other"}, cls : {None}, multi : {FALSE}]
           \cup [conn : Conns, kind : {"other"}, cls : Classes, multi : {FALSE}]
           \cup [conn : {c1}, kind : {"other"}, cls : Classes, multi : {TRUE}]
MCXidStart == [c \in Conns |-> IF c = c1 THEN 0 ELSE 100]
=============================================================================
