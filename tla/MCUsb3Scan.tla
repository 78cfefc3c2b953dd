---------------------------- MODULE MCUsb3Scan ----------------------------
EXTENDS Usb3Scan
McTroubles == SUBSET TroubleKinds
============================================================================
