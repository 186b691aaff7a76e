---------------------------- MODULE MCDeviceList ----------------------------
(* A small instance of DeviceList: this phone and a laptop on one account.  *)
EXTENDS DeviceList

CONSTANTS phone, laptop
=============================================================================
