---------------------------- MODULE MCIdleReaper ----------------------------
(* IdleReaper with one connection and a clock that wraps after a few walks. *)
EXTENDS IdleReaper

MCLimit == 2
MCPeriod == 2
MCWrap == 8
MCMaxStall == 1
=============================================================================
