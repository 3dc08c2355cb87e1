----------------------------- MODULE MCMstpBus ------------------------------
EXTENDS MstpBus

MCTraffic ==
    {Frame("DATA_XPCT_REPLY", MSTP_ADDR_BCAST, 0), Frame("DATA_XPCT_REPLY", 2, 0),
     Frame("DATA_NO_REPLY", 0, 2)}
=============================================================================
