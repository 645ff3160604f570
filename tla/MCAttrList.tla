----------------------------- MODULE MCAttrList -----------------------------
EXTENDS AttrList

MCFamily == {"NLMSG", "RTA", "NFA", "RTNH", "FAN", "TLV", "XT", "EBT", "TAG"}
MCPayload == {0, 3, 4}
MCLongData == {65528}
MCJunk == {0, 3, 4, 16, 65535}
MCSkips == {0, 1}
=============================================================================
