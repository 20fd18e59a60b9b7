------------------------------- MODULE MCRtc -------------------------------
(* Twelve seconds make an hour, so that BCD and binary differ; a day makes *)
(* a year.                                                                 *)
EXTENDS Rtc

(* Before a carry into one o'clock in the afternoon, and into the midnight *)
(* with which the year 2100 begins.                                        *)
MCStarts == {13 * 12 - 1, 77 * 24 * 12 - 1}
Noon == {12 * 12 - 1}

Modes == [binary : BOOLEAN, h24 : BOOLEAN]
JustMain == {main}
MainAndIrq == {main, irq}

ASSUME StartsWithinCentury == WithinCentury
=============================================================================
