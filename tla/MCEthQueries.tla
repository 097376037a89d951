---------------------------- MODULE MCEthQueries ----------------------------
EXTENDS EthQueries, MCEthShapes
=============================================================================
