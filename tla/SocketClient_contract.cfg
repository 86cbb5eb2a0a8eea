\* A connect in progress and the first update() after it; a refused connect,
\* close() and a second connect().
SPECIFICATION Spec
PROPERTIES ClientLifecycleContract
