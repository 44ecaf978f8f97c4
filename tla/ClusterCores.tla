----------------------------- MODULE ClusterCores ----------------------------
CONSTANT Cores   \* the device cores of a cluster
==============================================================================
