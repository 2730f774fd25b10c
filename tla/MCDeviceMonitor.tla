--------------------------- MODULE MCDeviceMonitor ---------------------------
\* An instance of the device monitor: the lists of commands that requests carry.
\* The first uses up the descriptors, the second leaves some for another request;
\* the last two are lists that the daemon does not expect.  An unknown name runs
\* any command, so each of them is met alone too.
EXTENDS DeviceMonitor

LongAndShort == {<<"IPADDRESS", "SNMP_STATE">>, <<"SYSTEM_NAME">>, <<"UNKNOWN">>,
                 <<"NETMASK", "NOVALUE">>}
=============================================================================
